---- MODULE Spec2Model ----
(***************************************************************************)
(* Model of the crypto alert service: CandleStore (rolling candle          *)
(* buffers), RuleEngine (rule evaluation and cooldown), the onCandle       *)
(* pipeline with its Telegram dispatches, and MarketDataService with the   *)
(* periodic reconcileSubscriptions pass.                                   *)
(***************************************************************************)
EXTENDS Integers, Sequences, FiniteSets, TLC

VARIABLES
    candles,        \* CandleStore.candles: key -> list of candles
    appended,       \* history: key -> every candle ever passed to add, in order
    capacity,       \* the max argument that callers pass to CandleStore.add
    held,           \* the array a caller of CandleStore.get still holds
    now,            \* Date.now(), epoch milliseconds
    users,          \* InMemoryStore.users: the ids of the stored users
    rules,          \* InMemoryStore.rules: rule id -> AlertRule
    ruleSeq,        \* how many rule ids newId() has handed out
    ruleCooldowns,  \* InMemoryStore.ruleCooldowns: rule id -> timestamp
    alerts,         \* InMemoryStore.alerts: list of AlertEvent
    notifications,  \* InMemoryStore.notifications: list of NotificationLog
    dispatches,     \* the dispatcher.dispatch promises, in creation order
    telegramBotToken, \* config.telegramBotToken is non-empty
    lastEval,       \* history: what the last onCandle call evaluated
    sockets,        \* MarketDataService.sockets: stream key -> socket id
    conns,          \* every WebSocket object created: id -> [key, state]
    lastReconcile,  \* history: what the last reconcileSubscriptions pass did
    process         \* the Node process: running or ended, and history of
                    \* what the last message handler call did

vars == <<candles, appended, capacity, held, now, users, rules, ruleSeq,
          ruleCooldowns,
          alerts, notifications, dispatches, telegramBotToken, lastEval,
          sockets, conns, lastReconcile, process>>

bufVars == <<candles, appended, capacity, held>>
storeVars == <<users, rules, ruleSeq, ruleCooldowns, alerts, notifications>>
pipeVars == <<dispatches, telegramBotToken, lastEval, process>>
subVars == <<sockets, conns, lastReconcile>>

----------------------------------------------------------------------------
(* Bounds of the model *)

MaxCap == 2          \* largest capacity tried for CandleStore.add
MaxAppends == 4      \* add calls per behaviour of SpecBuf
MaxFeed == 3         \* finalized candles delivered per behaviour
MaxTicks == 3        \* clock advances per behaviour
MaxThrown == 2       \* frames per behaviour whose handler throws
MaxRules == 2        \* rules created per behaviour
TickMs == 500        \* milliseconds per clock advance
StartNow == 1000     \* Date.now() when the process starts

\* The default of CandleStore.add's max parameter.
DefaultMax == 500

----------------------------------------------------------------------------
(* Generic helpers *)

Min(a, b) == IF a < b THEN a ELSE b
Max(a, b) == IF a > b THEN a ELSE b

\* A slice that runs to the end of the list whatever its end argument.
JsSliceToEnd(list, start, end) ==
    LET len == Len(list)
        from == IF start < 0 THEN Max(len + start, 0) ELSE Min(start, len)
    IN  SubSeq(list, from + 1, len)

\* Array.prototype.slice(start, end) on a list, with JavaScript's handling of
\* negative and out-of-range indices (0-based, end exclusive).
JsSlice(list, start, end) ==
    LET len == Len(list)
        from == IF start < 0 THEN Max(len + start, 0) ELSE Min(start, len)
        to == IF end < 0 THEN Max(len + end, 0) ELSE Min(end, len)
    IN  IF to <= from THEN <<>> ELSE SubSeq(list, from + 1, to)

\* Array.prototype.splice(0, count): the list without its first count items.
JsSpliceFront(list, count) ==
    LET n == Min(Max(count, 0), Len(list))
    IN  SubSeq(list, n + 1, Len(list))

----------------------------------------------------------------------------
(* Domain types (src/src/types/domain.ts) *)

Symbols == {"BTCUSDT", "ETHUSDT"}
Timeframes == {"1m", "5m", "15m"}

Candle(symbol, interval, closeTime, high, low, close, volume, isFinal) ==
    [symbol |-> symbol, interval |-> interval,
     openTime |-> closeTime - 1, closeTime |-> closeTime,
     open |-> close, high |-> high, low |-> low, close |-> close,
     volume |-> volume, isFinal |-> isFinal]

----------------------------------------------------------------------------
(* CandleStore (src/src/store/candleStore.ts) *)

makeKey(symbol, interval) == <<symbol, interval>>

\* What a template literal prints for a member that is missing.
Undefined == "undefined"

Keys == {makeKey(s, i) : s \in Symbols, i \in Timeframes}
        \cup {makeKey(Undefined, Undefined)}

\* CandleStore.get: the stored list, or [] when the key is absent.
CandleStoreGet(store, symbol, interval) == store[makeKey(symbol, interval)]

\* A store that pushes but never evicts.
CandleStoreAddNoEvict(store, candle, max) ==
    LET key == makeKey(candle.symbol, candle.interval)
    IN  [store EXCEPT ![key] = Append(store[key], candle)]

\* A store whose add pushes the candle twice.
CandleStoreAddTwice(store, candle, max) ==
    LET key == makeKey(candle.symbol, candle.interval)
        list == Append(Append(store[key], candle), candle)
        kept == IF Len(list) > max
                THEN JsSpliceFront(list, Len(list) - max)
                ELSE list
    IN  [store EXCEPT ![key] = kept]

\* CandleStore.add: push, then splice the oldest excess entries away.
CandleStoreAdd(store, candle, max) ==
    LET key == makeKey(candle.symbol, candle.interval)
        list == Append(store[key], candle)
        kept == IF Len(list) > max
                THEN JsSpliceFront(list, Len(list) - max)
                ELSE list
    IN  [store EXCEPT ![key] = kept]

EmptyStore == [k \in Keys |-> <<>>]

----------------------------------------------------------------------------
(* Numbers.  Prices, volumes and rule parameters are integers here; a       *)
(* quotient the code computes is kept as an exact fraction num/den, and a   *)
(* quotient 0/0 as NaN, for which every comparison is false.                *)

Quot(n, d) ==
    IF d = 0 THEN [nan |-> TRUE, num |-> 0, den |-> 1]
    ELSE IF d < 0 THEN [nan |-> FALSE, num |-> -n, den |-> -d]
    ELSE [nan |-> FALSE, num |-> n, den |-> d]

Times(q, k) == [q EXCEPT !.num = q.num * k]

\* x < q, x >= q and x <= q for an integer x and a quotient q, as the
\* JavaScript comparison operators answer them.
IntLt(x, q) == ~q.nan /\ x * q.den < q.num
QuotGe(q, x) == ~q.nan /\ q.num >= x * q.den
QuotLe(q, x) == ~q.nan /\ q.num <= x * q.den

RECURSIVE SumVolume(_)
SumVolume(list) ==
    IF list = <<>> THEN 0 ELSE Head(list).volume + SumVolume(Tail(list))

\* Math.max(...list) and Math.min(...list): -Infinity and +Infinity for [].
Infinite(sign) == [inf |-> sign, val |-> 0]
Finite(v) == [inf |-> 0, val |-> v]

MathMax(values) ==
    IF values = {} THEN Infinite(-1)
    ELSE Finite(CHOOSE v \in values : \A w \in values : w <= v)

MathMin(values) ==
    IF values = {} THEN Infinite(1)
    ELSE Finite(CHOOSE v \in values : \A w \in values : v <= w)

Greater(x, e) == e.inf = -1 \/ (e.inf = 0 /\ x > e.val)
Less(x, e) == e.inf = 1 \/ (e.inf = 0 /\ x < e.val)

Range(list) == {list[i] : i \in 1..Len(list)}

----------------------------------------------------------------------------
(* InMemoryStore (src/src/store/inMemoryStore.ts) *)

\* listRules(): the rules in insertion order.  Ids are handed out in
\* increasing order, so insertion order is id order.
RECURSIVE Ascending(_)
Ascending(ids) ==
    IF ids = {} THEN <<>>
    ELSE LET least == CHOOSE i \in ids : \A j \in ids : i <= j
         IN  <<least>> \o Ascending(ids \ {least})

listRules(rs) == Ascending(DOMAIN rs)

getUser(us, id) == IF id \in DOMAIN us THEN <<us[id]>> ELSE <<>>

hasCooldown(cds, ruleId) == ruleId \in DOMAIN cds

\* A set that forgets every other entry.
setCooldownAlone(cds, ruleId, timestamp) ==
    [id \in {ruleId} |-> timestamp]

\* setCooldown(ruleId, timestamp)
setCooldown(cds, ruleId, timestamp) ==
    [r \in DOMAIN cds \cup {ruleId} |->
        IF r = ruleId THEN timestamp ELSE cds[r]]

----------------------------------------------------------------------------
(* RuleEngine (src/unnamed/part_000, lines 82-279) *)

\* A rule engine that ignores the cooldown.
canTriggerAlways(cds, rule, clock) == TRUE

\* A gate that lets a rule through only while it has no timestamp.
canTriggerOnce(cds, rule, clock) == ~hasCooldown(cds, rule.id)

\* canTrigger: no stored timestamp (or a falsy one), or the cooldown elapsed.
canTrigger(cds, rule, clock) ==
    IF ~hasCooldown(cds, rule.id) \/ cds[rule.id] = 0 THEN TRUE
    ELSE clock - cds[rule.id] >= rule.cooldownSec * 1000

\* The direction test shared by checkBreakout and checkExtremeMove: the
\* check returns null when this holds.
DirectionRejects(direction, up, down) ==
    \/ direction = "UP" /\ ~up
    \/ direction = "DOWN" /\ ~down
    \/ direction = "BOTH" /\ ~up /\ ~down

NoResult == [confirmed |-> FALSE, alert |-> <<>>]

\* A check that returns the alert without looking the user up.
ConfirmedAnyUser(us, rule, payload) ==
    [confirmed |-> TRUE,
     alert |-> <<[rule |-> rule,
                  user |-> [id |-> rule.userId, telegramChatId |-> Undefined,
                            plan |-> Undefined],
                  payload |-> payload]>>]

\* A check that looks the user up before it records the trigger time.
ConfirmedUnlessOrphan(us, rule, payload) ==
    LET user == getUser(us, rule.userId)
    IN  IF user = <<>> THEN NoResult
        ELSE [confirmed |-> TRUE,
              alert |-> <<[rule |-> rule, user |-> user[1],
                           payload |-> payload]>>]

\* What a check returns once its condition holds: markTriggered has run
\* (confirmed), and the alert is dropped when the user is missing.
Confirmed(us, rule, payload) ==
    LET user == getUser(us, rule.userId)
    IN  [confirmed |-> TRUE,
         alert |-> IF user = <<>> THEN <<>>
                   ELSE <<[rule |-> rule, user |-> user[1], payload |-> payload]>>]

\* A breakout check without the history-length guard.
checkBreakoutNoGuard(store, us, rule, candle, clock) ==
    LET history == CandleStoreGet(store, rule.symbol, candle.interval)
        window == JsSlice(history, -rule.params.lookback - 1, -1)
        highest == MathMax({item.high : item \in Range(window)})
        lowest == MathMin({item.low : item \in Range(window)})
        brokeUp == Greater(candle.close, highest)
        brokeDown == Less(candle.close, lowest)
    IN  IF DirectionRejects(rule.params.direction, brokeUp, brokeDown)
        THEN NoResult
        ELSE Confirmed(us, rule,
                [type |-> "BREAKOUT", symbol |-> rule.symbol,
                 timeframe |-> rule.timeframe, close |-> candle.close,
                 highest |-> highest, lowest |-> lowest,
                 direction |-> IF brokeUp THEN "UP" ELSE "DOWN",
                 triggeredAt |-> clock])

checkBreakout(store, us, rule, candle, clock) ==
    LET history == CandleStoreGet(store, rule.symbol, candle.interval)
    IN  IF Len(history) < rule.params.lookback + 1 THEN NoResult
        ELSE checkBreakoutNoGuard(store, us, rule, candle, clock)

\* A volume check whose boundary is exclusive.
checkVolumeSpikeExclusive(store, us, rule, candle, clock) ==
    LET history == CandleStoreGet(store, rule.symbol, candle.interval)
        window == JsSlice(history, -rule.params.lookback - 1, -1)
        avgVolume == Quot(SumVolume(window), Len(window))
        threshold == Times(avgVolume, rule.params.multiplier)
    IN  IF Len(history) < rule.params.lookback + 1 THEN NoResult
        ELSE IF IntLt(candle.volume, threshold)
                \/ (~threshold.nan
                    /\ candle.volume * threshold.den = threshold.num)
        THEN NoResult
        ELSE Confirmed(us, rule,
                [type |-> "VOLUME_SPIKE", symbol |-> rule.symbol,
                 timeframe |-> rule.timeframe, volume |-> candle.volume,
                 avgVolume |-> avgVolume,
                 multiplier |-> rule.params.multiplier,
                 triggeredAt |-> clock])

checkVolumeSpike(store, us, rule, candle, clock) ==
    LET history == CandleStoreGet(store, rule.symbol, candle.interval)
        window == JsSlice(history, -rule.params.lookback - 1, -1)
        avgVolume == Quot(SumVolume(window), Len(window))
    IN  IF Len(history) < rule.params.lookback + 1 THEN NoResult
        ELSE IF IntLt(candle.volume, Times(avgVolume, rule.params.multiplier))
        THEN NoResult
        ELSE Confirmed(us, rule,
                [type |-> "VOLUME_SPIKE", symbol |-> rule.symbol,
                 timeframe |-> rule.timeframe, volume |-> candle.volume,
                 avgVolume |-> avgVolume,
                 multiplier |-> rule.params.multiplier,
                 triggeredAt |-> clock])

\* [...history].reverse().find(item => item.closeTime <= cutoff): the last
\* item of the list that satisfies the test, as a list of zero or one item.
FindLastAtOrBefore(history, cutoff) ==
    LET hits == {i \in 1..Len(history) : history[i].closeTime <= cutoff}
    IN  IF hits = {} THEN <<>>
        ELSE <<history[CHOOSE i \in hits : \A j \in hits : j <= i]>>

\* change = ((candle.close - previous.close) / previous.close) * 100
PercentChange(close, previousClose) ==
    Quot((close - previousClose) * 100, previousClose)

\* An extreme-move check that tests the size of the move but not its sign.
checkExtremeMoveUnsigned(store, us, rule, candle, clock) ==
    LET history == CandleStoreGet(store, rule.symbol, "1m")
        cutoff == candle.closeTime - rule.params.windowMin * 60 * 1000
        previous == FindLastAtOrBefore(history, cutoff)
        change == PercentChange(candle.close, previous[1].close)
        moved == QuotGe(change, rule.params.percent)
                 \/ QuotLe(change, -rule.params.percent)
    IN  IF history = <<>> \/ previous = <<>> \/ ~moved THEN NoResult
        ELSE Confirmed(us, rule,
                [type |-> "EXTREME_MOVE", symbol |-> rule.symbol,
                 windowMin |-> rule.params.windowMin,
                 percent |-> rule.params.percent, change |-> change,
                 price |-> candle.close, triggeredAt |-> clock])

checkExtremeMove(store, us, rule, candle, clock) ==
    LET history == CandleStoreGet(store, rule.symbol, "1m")
        cutoff == candle.closeTime - rule.params.windowMin * 60 * 1000
        previous == FindLastAtOrBefore(history, cutoff)
        change == PercentChange(candle.close, previous[1].close)
        up == QuotGe(change, rule.params.percent)
        down == QuotLe(change, -rule.params.percent)
    IN  IF history = <<>> THEN NoResult
        ELSE IF previous = <<>> THEN NoResult
        ELSE IF DirectionRejects(rule.params.direction, up, down)
        THEN NoResult
        ELSE Confirmed(us, rule,
                [type |-> "EXTREME_MOVE", symbol |-> rule.symbol,
                 windowMin |-> rule.params.windowMin,
                 percent |-> rule.params.percent, change |-> change,
                 price |-> candle.close, triggeredAt |-> clock])

\* A type dispatch that also checks EXTREME_MOVE rules.
CheckByTypeAll(store, us, rule, candle, clock) ==
    IF rule.type = "BREAKOUT" THEN checkBreakout(store, us, rule, candle, clock)
    ELSE IF rule.type = "VOLUME_SPIKE"
    THEN checkVolumeSpike(store, us, rule, candle, clock)
    ELSE checkExtremeMove(store, us, rule, candle, clock)

\* The type dispatch in the loop body of evaluateCandle.
CheckByType(store, us, rule, candle, clock) ==
    IF rule.type = "BREAKOUT" THEN checkBreakout(store, us, rule, candle, clock)
    ELSE IF rule.type = "VOLUME_SPIKE"
    THEN checkVolumeSpike(store, us, rule, candle, clock)
    ELSE NoResult

NoOutcome(cds) ==
    [cooldowns |-> cds, triggered |-> <<>>, confirmed |-> {}, blocked |-> {}]

\* A loop body whose checks never record the trigger time.
LoopStepNoMark(acc, rule, result, clock) ==
    IF ~canTrigger(acc.cooldowns, rule, clock)
    THEN [acc EXCEPT !.blocked = @ \cup {rule.id}]
    ELSE IF result.confirmed
    THEN [acc EXCEPT !.triggered = @ \o result.alert,
                     !.confirmed = @ \cup {rule.id}]
    ELSE acc

\* One pass of a rule through the loop body: the cooldown gate, the check,
\* and markTriggered when the check confirmed the condition.
LoopStep(acc, rule, result, clock) ==
    IF ~canTrigger(acc.cooldowns, rule, clock)
    THEN [acc EXCEPT !.blocked = @ \cup {rule.id}]
    ELSE IF result.confirmed
    THEN [cooldowns |-> setCooldown(acc.cooldowns, rule.id, clock),
          triggered |-> acc.triggered \o result.alert,
          confirmed |-> acc.confirmed \cup {rule.id},
          blocked |-> acc.blocked]
    ELSE acc

\* A filter that forgets rule.isEnabled.
CandleRuleFilterAll(rule, candle) ==
    rule.symbol = candle.symbol /\ rule.timeframe = candle.interval

\* A filter that takes a rule without timeframe as a 1m rule.
CandleRuleFilterDefaulting(rule, candle) ==
    rule.isEnabled /\ rule.symbol = candle.symbol
        /\ (IF rule.timeframe = "null" THEN "1m" ELSE rule.timeframe)
              = candle.interval

\* The filter of evaluateCandle.
CandleRuleFilter(rule, candle) ==
    rule.isEnabled /\ rule.symbol = candle.symbol
        /\ rule.timeframe = candle.interval

\* The filter of evaluateExtremeMove.
ExtremeRuleFilter(rule, candle) ==
    rule.isEnabled /\ rule.symbol = candle.symbol
        /\ rule.type = "EXTREME_MOVE"

\* evaluateCandle after its candleStore.add: the loop over the filtered
\* rules, in listRules order.  store is the candle store after the add.
RECURSIVE evaluateCandleLoop(_, _, _, _, _, _, _)
evaluateCandleLoop(order, acc, store, us, rs, candle, clock) ==
    IF order = <<>> THEN acc
    ELSE LET rule == rs[Head(order)]
             next == IF CandleRuleFilter(rule, candle)
                     THEN LoopStep(acc, rule,
                            CheckByType(store, us, rule, candle, clock), clock)
                     ELSE acc
         IN  evaluateCandleLoop(Tail(order), next, store, us, rs, candle, clock)

RECURSIVE evaluateExtremeMoveLoop(_, _, _, _, _, _, _)
evaluateExtremeMoveLoop(order, acc, store, us, rs, candle, clock) ==
    IF order = <<>> THEN acc
    ELSE LET rule == rs[Head(order)]
             next == IF ExtremeRuleFilter(rule, candle)
                     THEN LoopStep(acc, rule,
                            checkExtremeMove(store, us, rule, candle, clock),
                            clock)
                     ELSE acc
         IN  evaluateExtremeMoveLoop(Tail(order), next, store, us, rs, candle,
                                     clock)

evaluateCandle(store, cds, us, rs, candle, clock) ==
    evaluateCandleLoop(listRules(rs), NoOutcome(cds), store, us, rs, candle,
                       clock)

evaluateExtremeMove(store, cds, us, rs, candle, clock) ==
    evaluateExtremeMoveLoop(listRules(rs), NoOutcome(cds), store, us, rs,
                            candle, clock)

----------------------------------------------------------------------------
(* The pipeline (src/src/index.ts) *)

\* The AlertEvent built for the i-th alert of one onCandle call.  newId() is
\* modelled by the event's position in the alert store, which is unique
\* because the events of a call are stored before the call returns.
AlertEventOf(alert, i, stored, clock) ==
    [id |-> stored + i, ruleId |-> alert.rule.id, userId |-> alert.user.id,
     symbol |-> alert.rule.symbol, type |-> alert.rule.type,
     triggeredAt |-> clock, payload |-> alert.payload]

NotificationOf(dispatch, status, count, clock) ==
    [id |-> count + 1, alertEventId |-> dispatch.eventId,
     ruleId |-> dispatch.rule.id, userId |-> dispatch.userId,
     channel |-> "TELEGRAM", status |-> status,
     error |-> IF status = "FAILED" THEN <<"Error">> ELSE <<>>,
     sentAt |-> clock]

\* A dispatch that carries the first event of its call, not its own.
DispatchOfFirstEvent(alert, event, batch, token) ==
    [eventId |-> batch, rule |-> alert.rule, userId |-> alert.user.id,
     batch |-> batch,
     state |-> IF token THEN "pending" ELSE "rejected"]

\* The promise of one dispatcher.dispatch call.  Without a bot token the
\* call throws before it suspends, so its promise is rejected at once.
DispatchOf(alert, event, batch, token) ==
    [eventId |-> event.id, rule |-> alert.rule, userId |-> alert.user.id,
     batch |-> batch,
     state |-> IF token THEN "pending" ELSE "rejected"]

RECURSIVE LogAll(_, _, _)
LogAll(logs, started, clock) ==
    IF started = <<>> THEN logs
    ELSE LogAll(Append(logs, NotificationOf(Head(started), "FAILED",
                                            Len(logs), clock)),
                Tail(started), clock)

\* A settle step that, on a failure, also abandons the other dispatches of
\* the same onCandle call.
SettleAllOfBatch(ds, i, ok) ==
    [j \in 1..Len(ds) |->
        IF j = i THEN [ds[j] EXCEPT !.state = IF ok THEN "fulfilled"
                                                 ELSE "rejected"]
        ELSE IF ~ok /\ ds[j].batch = ds[i].batch /\ ds[j].state = "pending"
        THEN [ds[j] EXCEPT !.state = "abandoned"]
        ELSE ds[j]]

\* The dispatch promises after the i-th one settled: the try/catch is per
\* alert, so no other promise is touched.
Settle(ds, i, ok) ==
    [ds EXCEPT ![i].state = IF ok THEN "fulfilled" ELSE "rejected"]

NoEval == [candle |-> <<>>, final |-> FALSE, at |-> 0, confirmed |-> {},
           blocked |-> {}, fired |-> <<>>]

Fed == LET RECURSIVE Total(_)
           Total(ks) == IF ks = {} THEN 0
                        ELSE LET k == CHOOSE x \in ks : TRUE
                             IN  Len(appended[k]) + Total(ks \ {k})
       IN  Total(Keys)

----------------------------------------------------------------------------
(* The feed.  A kline stream delivers the bars of one key in order, so the  *)
(* closeTime of a delivered candle is the key's last closeTime plus a       *)
(* whole number of minutes.                                                 *)

Shape(high, low, close, volume) ==
    [high |-> high, low |-> low, close |-> close, volume |-> volume]

LastCloseTime(symbol, interval) ==
    LET seen == appended[makeKey(symbol, interval)]
    IN  IF seen = <<>> THEN 0 ELSE seen[Len(seen)].closeTime

FeedCandle(symbol, interval, shape, gapMin, isFinal) ==
    Candle(symbol, interval,
           LastCloseTime(symbol, interval) + gapMin * 60 * 1000,
           shape.high, shape.low, shape.close, shape.volume, isFinal)

----------------------------------------------------------------------------
(* Actions *)

\* The clock advances.
Tick ==
    /\ now + TickMs <= StartNow + MaxTicks * TickMs
    /\ now' = now + TickMs
    /\ UNCHANGED <<bufVars, storeVars, pipeVars, subVars>>

\* The onCandle callback past its isFinal test: the candle is stored and
\* evaluated, and the handleTriggeredAlerts call it starts runs up to the
\* first suspension of every dispatch.
EvaluateAndDispatch(candle) ==
    /\ Fed < MaxFeed
    /\ LET key == makeKey(candle.symbol, candle.interval)
           store == CandleStoreAdd(candles, candle, DefaultMax)
           own == evaluateCandle(store, ruleCooldowns, users, rules, candle,
                                 now)
           extreme == IF candle.interval = "1m"
                      THEN evaluateExtremeMove(store, own.cooldowns, users,
                                               rules, candle, now)
                      ELSE NoOutcome(own.cooldowns)
           allTriggered == own.triggered \o extreme.triggered
           events == [i \in 1..Len(allTriggered) |->
                        AlertEventOf(allTriggered[i], i, Len(alerts), now)]
           started == [i \in 1..Len(allTriggered) |->
                        DispatchOf(allTriggered[i], events[i],
                                   Len(alerts) + 1, telegramBotToken)]
       IN  /\ candles' = store
           /\ appended' = [appended EXCEPT ![key] = Append(@, candle)]
           /\ ruleCooldowns' = extreme.cooldowns
           /\ alerts' = alerts \o events
           /\ dispatches' = dispatches \o started
           /\ notifications' = IF telegramBotToken THEN notifications
                               ELSE LogAll(notifications, started, now)
           /\ lastEval' = [candle |-> <<candle>>, final |-> TRUE, at |-> now,
                           confirmed |-> own.confirmed \cup extreme.confirmed,
                           blocked |-> own.blocked \cup extreme.blocked,
                           fired |-> [i \in 1..Len(allTriggered) |->
                                        allTriggered[i].rule.id]]
    /\ UNCHANGED <<capacity, held, now, users, rules, ruleSeq,
                   telegramBotToken,
                   process, subVars>>

\* An onCandle callback without the isFinal test.
OnCandleAnyFinality(candle) == EvaluateAndDispatch(candle)

\* The onCandle callback of index.ts: a candle that is not final returns
\* at once.
OnCandle(candle) ==
    IF ~candle.isFinal
    THEN /\ lastEval' = [NoEval EXCEPT !.candle = <<candle>>, !.at = now]
         /\ UNCHANGED <<bufVars, now, storeVars, dispatches,
                        telegramBotToken, process, subVars>>
    ELSE EvaluateAndDispatch(candle)

\* The i-th dispatch returns: handleTriggeredAlerts logs SENT.
DispatchSucceeds(i) ==
    /\ dispatches[i].state = "pending"
    /\ dispatches' = Settle(dispatches, i, TRUE)
    /\ notifications' = Append(notifications,
            NotificationOf(dispatches[i], "SENT", Len(notifications), now))
    /\ UNCHANGED <<bufVars, now, users, rules, ruleSeq, ruleCooldowns, alerts,
                   telegramBotToken, lastEval, process, subVars>>

\* A failure handler that logs FAILED and then sends again.
DispatchFailsAndRetries(i) ==
    /\ dispatches[i].state = "pending"
    /\ notifications' = Append(notifications,
            NotificationOf(dispatches[i], "FAILED", Len(notifications), now))
    /\ UNCHANGED <<bufVars, now, users, rules, ruleSeq, ruleCooldowns, alerts,
                   dispatches, telegramBotToken, lastEval, process, subVars>>

\* The i-th dispatch throws: handleTriggeredAlerts logs FAILED.
DispatchFails(i) ==
    /\ dispatches[i].state = "pending"
    /\ dispatches' = Settle(dispatches, i, FALSE)
    /\ notifications' = Append(notifications,
            NotificationOf(dispatches[i], "FAILED", Len(notifications), now))
    /\ UNCHANGED <<bufVars, now, users, rules, ruleSeq, ruleCooldowns, alerts,
                   telegramBotToken, lastEval, process, subVars>>

\* InMemoryStore.updateRule: the stored rule overlaid with the updates.
updateRule(rs, id, updates) ==
    [rs EXCEPT ![id] = [f \in DOMAIN rs[id] |->
                          IF f \in DOMAIN updates THEN updates[f]
                          ELSE rs[id][f]]]

\* A PATCH that also forgets when the rule last fired.
PatchRuleClearsCooldown(id, updates) ==
    /\ id \in DOMAIN rules
    /\ rules' = updateRule(rules, id, updates)
    /\ ruleCooldowns' = [r \in DOMAIN ruleCooldowns \ {rules[id].id} |->
                           ruleCooldowns[r]]
    /\ lastReconcile' = [lastReconcile EXCEPT !.done = 0]
    /\ UNCHANGED <<bufVars, now, users, ruleSeq, alerts,
                   notifications, pipeVars, sockets, conns>>

\* PATCH /rules/:id
PatchRule(id, updates) ==
    /\ id \in DOMAIN rules
    /\ rules' = updateRule(rules, id, updates)
    /\ lastReconcile' = [lastReconcile EXCEPT !.done = 0]
    /\ UNCHANGED <<bufVars, now, users, ruleSeq, ruleCooldowns, alerts,
                   notifications, pipeVars, sockets, conns>>

----------------------------------------------------------------------------
(* Initial states *)

NoReconcile == [done |-> 0, opened |-> {}]

\* The process has started and no frame has arrived.
Started == [state |-> "running", thrown |-> 0, last |-> "none"]

\* Nothing stored, nothing connected, no dispatch started.
IdleInit ==
    /\ candles = EmptyStore
    /\ appended = EmptyStore
    /\ capacity = DefaultMax
    /\ held = <<>>
    /\ now = StartNow
    /\ alerts = <<>>
    /\ notifications = <<>>
    /\ ruleCooldowns = <<>>
    /\ dispatches = <<>>
    /\ lastEval = NoEval
    /\ process = Started
    /\ sockets = <<>>
    /\ conns = <<>>
    /\ lastReconcile = NoReconcile

----------------------------------------------------------------------------
(* SpecBuf: CandleStore.add called with one capacity, on several keys *)

Flat == Shape(100, 100, 100, 10)
High == Shape(103, 103, 103, 20)

BufCandles ==
    {FeedCandle(s, "1m", shape, 1, TRUE) :
        s \in Symbols, shape \in {Flat, High}}

BufInit ==
    /\ candles = EmptyStore
    /\ appended = EmptyStore
    /\ capacity \in 0..MaxCap
    /\ held = <<>>
    /\ now = StartNow
    /\ users = <<>>
    /\ rules = <<>>
    /\ ruleSeq = 0
    /\ telegramBotToken = TRUE
    /\ alerts = <<>>
    /\ notifications = <<>>
    /\ ruleCooldowns = <<>>
    /\ dispatches = <<>>
    /\ lastEval = NoEval
    /\ process = Started
    /\ sockets = <<>>
    /\ conns = <<>>
    /\ lastReconcile = NoReconcile

\* candleStore.add(candle, capacity)
BufAdd(candle) ==
    /\ Fed < MaxAppends
    /\ candles' = CandleStoreAdd(candles, candle, capacity)
    /\ appended' = [appended EXCEPT
            ![makeKey(candle.symbol, candle.interval)] = Append(@, candle)]
    /\ UNCHANGED <<capacity, held, now, storeVars, pipeVars, subVars>>

BufNext == \E candle \in BufCandles : BufAdd(candle)

SpecBuf == BufInit /\ [][BufNext]_vars

LastItems(list, n) == SubSeq(list, Len(list) - n + 1, Len(list))

\* C1: after every add, each key's stored list is no longer than the
\* capacity and is the last min(n, capacity) of the n candles appended to
\* that key, in append order.
BufferHoldsLastAppended ==
    \A k \in Keys :
        /\ Len(candles[k]) <= capacity
        /\ candles[k] = LastItems(appended[k], Min(Len(appended[k]), capacity))

\* C1 witness: a key that has evicted and still holds a full, non-empty list.
BufferHasEvicted ==
    \E k \in Keys :
        /\ capacity >= 2
        /\ Len(appended[k]) > capacity
        /\ Len(candles[k]) = capacity

----------------------------------------------------------------------------
(* Rules and users as POST /users and POST /rules store them *)

User(id, plan) == [id |-> id, telegramChatId |-> "chat", plan |-> plan]

Rule(id, userId, symbol, type, timeframe, params, isEnabled, cooldownSec) ==
    [id |-> id, userId |-> userId, symbol |-> symbol, type |-> type,
     timeframe |-> timeframe, params |-> params, isEnabled |-> isEnabled,
     cooldownSec |-> cooldownSec]

BreakoutParams(lookback, direction) ==
    [lookback |-> lookback, direction |-> direction]

VolumeSpikeParams(lookback, multiplier) ==
    [lookback |-> lookback, multiplier |-> multiplier]

ExtremeMoveParams(windowMin, percent, direction) ==
    [windowMin |-> windowMin, percent |-> percent, direction |-> direction]

Directions == {"UP", "DOWN", "BOTH"}

----------------------------------------------------------------------------
(* Spec: the pipeline with two stored rules, a 1m and a 5m stream of one    *)
(* symbol, the clock, the dispatches and PATCH /rules/:id                   *)

\* Rule 1 is a 1m breakout or volume rule, rule 2 an extreme-move rule, both
\* enabled when created and owned by user 1.
PipeRules ==
    {[i \in 1..2 |->
        IF i = 1
        THEN Rule(1, 1, "BTCUSDT", first[1], "1m", first[2], TRUE, 1)
        ELSE Rule(2, 1, "BTCUSDT", "EXTREME_MOVE", "null",
                  ExtremeMoveParams(1, 2, "BOTH"), TRUE, 1)] :
      first \in {<<"BREAKOUT", BreakoutParams(1, "BOTH")>>,
                 <<"VOLUME_SPIKE", VolumeSpikeParams(1, 2)>>}}

PipeCandles ==
    {FeedCandle("BTCUSDT", "1m", shape, 1, TRUE) : shape \in {Flat, High}}
    \cup {FeedCandle("BTCUSDT", "1m", High, 1, FALSE)}

PipePatches == {[isEnabled |-> TRUE], [isEnabled |-> FALSE]}

\* The service runs without TELEGRAM_BOT_TOKEN (the default of config.ts):
\* every dispatch throws before it suspends.
Init ==
    /\ IdleInit
    /\ users = [u \in {1} |-> User(1, "FREE")]
    /\ rules \in PipeRules
    /\ ruleSeq = Len(rules)
    /\ telegramBotToken = FALSE

Next ==
    \/ Tick
    \/ \E candle \in PipeCandles : OnCandle(candle)
    \/ \E id \in DOMAIN rules, updates \in PipePatches : PatchRule(id, updates)

Spec == Init /\ [][Next]_vars

----------------------------------------------------------------------------
(* SpecDispatch: the same pipeline with a bot token, so that dispatches     *)
(* suspend and later return or throw                                        *)

\* A 1m breakout rule and an extreme-move rule, so that one candle can
\* trigger two alerts.
DispatchRules ==
    [i \in 1..2 |->
        IF i = 1
        THEN Rule(1, 1, "BTCUSDT", "BREAKOUT", "1m",
                  BreakoutParams(1, "BOTH"), TRUE, 3)
        ELSE Rule(2, 1, "BTCUSDT", "EXTREME_MOVE", "null",
                  ExtremeMoveParams(1, 2, "BOTH"), TRUE, 3)]

DispatchCandles ==
    {FeedCandle("BTCUSDT", "1m", shape, 1, TRUE) : shape \in {Flat, High}}

DispatchInit ==
    /\ IdleInit
    /\ users = [u \in {1} |-> User(1, "FREE")]
    /\ rules = DispatchRules
    /\ ruleSeq = Len(rules)
    /\ telegramBotToken = TRUE

DispatchNext ==
    \/ Tick
    \/ \E candle \in DispatchCandles : OnCandle(candle)
    \/ \E i \in 1..Len(dispatches) : DispatchSucceeds(i)
    \/ \E i \in 1..Len(dispatches) : DispatchFails(i)

SpecDispatch == DispatchInit /\ [][DispatchNext]_vars

----------------------------------------------------------------------------
(* Vocabulary of the properties *)

CooldownOf(cds, ruleId) ==
    IF hasCooldown(cds, ruleId) THEN <<cds[ruleId]>> ELSE <<>>

\* The rule's type-specific condition on the candle, against the buffers as
\* they are (the candle is their newest entry right after its evaluation).
ConditionHolds(rule, candle) ==
    IF rule.type = "EXTREME_MOVE"
    THEN candle.interval = "1m"
         /\ checkExtremeMove(candles, users, rule, candle, now).confirmed
    ELSE CheckByType(candles, users, rule, candle, now).confirmed

\* The rule is one the evaluation of the candle looks at, its enabled flag
\* aside.
Matches(rule, candle) ==
    /\ rule.symbol = candle.symbol
    /\ rule.type = "EXTREME_MOVE" \/ rule.timeframe = candle.interval

\* The rule ids of the alert events this step stores.
NewAlertRules == {alerts'[i].ruleId : i \in Len(alerts) + 1..Len(alerts')}
NewDispatchRules ==
    {dispatches'[i].rule.id : i \in Len(dispatches) + 1..Len(dispatches')}
NewNotificationRules ==
    {notifications'[i].ruleId :
        i \in Len(notifications) + 1..Len(notifications')}

InCooldown(ruleId) ==
    /\ ruleId \in DOMAIN rules
    /\ hasCooldown(ruleCooldowns, ruleId)
    /\ now - ruleCooldowns[ruleId] < rules[ruleId].cooldownSec * 1000

----------------------------------------------------------------------------
(* Properties of Spec *)

\* C2: while less than cooldownSec * 1000 ms have passed since a rule's
\* stored trigger time, no step stores an alert for the rule or writes its
\* cooldown timestamp again, whatever the candles are.
NoTriggerInsideCooldown ==
    [][\A r \in DOMAIN rules :
          InCooldown(r) =>
              /\ CooldownOf(ruleCooldowns', r) = CooldownOf(ruleCooldowns, r)
              /\ r \notin NewAlertRules]_vars

\* C2 witness: the last candle met the condition of a rule that had fired
\* and was still inside its cooldown window, and the rule was passed over.
BlockedWhileConditionHolds ==
    /\ lastEval.final
    /\ \E r \in lastEval.blocked :
          /\ InCooldown(r)
          /\ ConditionHolds(rules[r], lastEval.candle[1])
          /\ \E i \in 1..Len(alerts) : alerts[i].ruleId = r

\* C4: a step taken while a rule is disabled stores no alert event, starts
\* no dispatch and logs no notification for that rule, and leaves its
\* cooldown entry as it was.
DisabledRuleIsInert ==
    [][\A r \in DOMAIN rules :
          ~rules[r].isEnabled =>
              /\ CooldownOf(ruleCooldowns', r) = CooldownOf(ruleCooldowns, r)
              /\ r \notin NewAlertRules
              /\ r \notin NewDispatchRules
              /\ r \notin NewNotificationRules]_vars

\* C4 witness: the last candle met the condition of a matching rule that
\* was neither fired nor held back by its cooldown, because it is disabled.
DisabledRuleSkipped ==
    /\ lastEval.final
    /\ \E r \in DOMAIN rules :
          /\ ~rules[r].isEnabled
          /\ Matches(rules[r], lastEval.candle[1])
          /\ ConditionHolds(rules[r], lastEval.candle[1])
          /\ r \notin lastEval.confirmed \cup lastEval.blocked
          /\ ~hasCooldown(ruleCooldowns, r)

\* C11: a step that delivers a candle with isFinal = false leaves every
\* buffer, the cooldown map, the alert events, the dispatches and the
\* notification logs as they were.
NonFinalCandleChangesNothing ==
    [][(/\ lastEval' # lastEval
        /\ lastEval'.candle # <<>>
        /\ ~lastEval'.candle[1].isFinal)
       => UNCHANGED <<candles, appended, ruleCooldowns, alerts, dispatches,
                      notifications>>]_vars

\* C11 witness: the last candle was not final, and had it been final it
\* would have fired an enabled rule that is in no cooldown.
NonFinalCandleDiscarded ==
    /\ lastEval.candle # <<>>
    /\ ~lastEval.candle[1].isFinal
    /\ ~lastEval.final
    /\ alerts = <<>>
    /\ \E r \in DOMAIN rules :
          /\ rules[r].isEnabled
          /\ rules[r].type = "BREAKOUT"
          /\ Matches(rules[r], lastEval.candle[1])
          /\ ~hasCooldown(ruleCooldowns, r)
          /\ CheckByType(CandleStoreAdd(candles, lastEval.candle[1],
                                        DefaultMax),
                         users, rules[r], lastEval.candle[1], now).confirmed

\* The condition of a rule holds for a candle, the buffers being store.
ConditionHoldsIn(store, rule, candle) ==
    IF rule.type = "EXTREME_MOVE"
    THEN candle.interval = "1m"
         /\ checkExtremeMove(store, users, rule, candle, now).confirmed
    ELSE CheckByType(store, users, rule, candle, now).confirmed

\* C22: when a final candle arrives for an enabled rule that matches it,
\* whose condition holds on the buffer with that candle, whose user exists
\* and which has no stored trigger time or one at least cooldownSec * 1000
\* ms old, the step that evaluates the candle stores an alert for the rule.
ReadyRuleFiresAtOnce ==
    [][(lastEval' # lastEval /\ lastEval'.final) =>
          \A r \in DOMAIN rules :
              (/\ rules[r].isEnabled
               /\ Matches(rules[r], lastEval'.candle[1])
               /\ ConditionHoldsIn(candles', rules[r], lastEval'.candle[1])
               /\ getUser(users, rules[r].userId) # <<>>
               /\ \/ ~hasCooldown(ruleCooldowns, r)
                  \/ now - ruleCooldowns[r] >= rules[r].cooldownSec * 1000)
              => r \in NewAlertRules
      ]_vars

\* C22 witness: a rule with a cooldown of one second fired, a second went
\* by, and the rule fired again on the last candle.
FiredAgainAfterCooldown ==
    /\ lastEval.final
    /\ \E r \in DOMAIN rules :
          /\ rules[r].cooldownSec = 1
          /\ Cardinality({i \in 1..Len(alerts) : alerts[i].ruleId = r}) = 2
          /\ alerts[Len(alerts)].ruleId = r
          /\ alerts[Len(alerts)].triggeredAt = lastEval.at
          /\ \E i \in 1..Len(alerts) - 1 :
                /\ alerts[i].ruleId = r
                /\ lastEval.at - alerts[i].triggeredAt >= 1000

\* C23: a step changes the cooldown entry of a rule only when it evaluates
\* a final candle that the enabled rule matches and on which its condition
\* holds, and the entry is then the time of the evaluation; every other
\* entry stays as it was, no entry is ever removed and no stored time ever
\* decreases.
CooldownWrittenOnlyOnConfirm ==
    [][/\ \A r \in DOMAIN ruleCooldowns :
            /\ r \in DOMAIN ruleCooldowns'
            /\ ruleCooldowns'[r] >= ruleCooldowns[r]
       /\ \A r \in DOMAIN ruleCooldowns' :
            CooldownOf(ruleCooldowns', r) # CooldownOf(ruleCooldowns, r) =>
                /\ lastEval' # lastEval
                /\ lastEval'.final
                /\ r \in DOMAIN rules
                /\ rules[r].isEnabled
                /\ Matches(rules[r], lastEval'.candle[1])
                /\ ConditionHoldsIn(candles', rules[r], lastEval'.candle[1])
                /\ ruleCooldowns'[r] = now
      ]_vars

\* C23 witness: the last candle met the condition of one rule, whose entry
\* is the time of that evaluation, and not the condition of another rule
\* that was free to fire, whose entry is still the earlier time it fired.
OtherCooldownUntouched ==
    /\ lastEval.final
    /\ \E r, q \in DOMAIN rules :
          /\ r \in lastEval.confirmed
          /\ ruleCooldowns[r] = lastEval.at
          /\ q \notin lastEval.confirmed \cup lastEval.blocked
          /\ rules[q].isEnabled
          /\ Matches(rules[q], lastEval.candle[1])
          /\ hasCooldown(ruleCooldowns, q)
          /\ ruleCooldowns[q] < lastEval.at

----------------------------------------------------------------------------
(* Properties of SpecDispatch *)

PendingFor(ruleId) ==
    \E i \in 1..Len(dispatches) :
        dispatches[i].state = "pending" /\ dispatches[i].rule.id = ruleId

\* C3: the step that starts a dispatch has already written the rule's
\* cooldown timestamp (the time of the trigger), and while a dispatch of a
\* rule is pending and the rule is inside its cooldown window no step stores
\* another alert for the rule or rewrites its timestamp.
CooldownSetBeforeDispatch ==
    [][/\ \A i \in Len(dispatches) + 1..Len(dispatches') :
            /\ hasCooldown(ruleCooldowns', dispatches'[i].rule.id)
            /\ ruleCooldowns'[dispatches'[i].rule.id]
                  = alerts'[dispatches'[i].eventId].triggeredAt
       /\ \A r \in DOMAIN rules :
            PendingFor(r) /\ InCooldown(r) =>
                /\ r \notin NewAlertRules
                /\ CooldownOf(ruleCooldowns', r) = CooldownOf(ruleCooldowns, r)
      ]_vars

\* C3 witness: the last candle met the condition of a rule whose earlier
\* dispatch is still pending, and the rule was held back by its cooldown.
BlockedWhileDispatchPending ==
    /\ lastEval.final
    /\ \E r \in lastEval.blocked :
          /\ PendingFor(r)
          /\ InCooldown(r)
          /\ ConditionHolds(rules[r], lastEval.candle[1])

LogsOf(eventId) ==
    {i \in 1..Len(notifications) : notifications[i].alertEventId = eventId}

\* C8: a step that settles one dispatch leaves every other dispatch as it
\* was and logs exactly one notification, for the settled alert, SENT when
\* the dispatch returned and FAILED when it threw; no dispatch ever ends in
\* another way.
DispatchesAreIndependent ==
    [][/\ \A i \in 1..Len(dispatches) :
            dispatches'[i] # dispatches[i] =>
                /\ dispatches[i].state = "pending"
                /\ \A j \in 1..Len(dispatches) \ {i} :
                        dispatches'[j] = dispatches[j]
                /\ Len(notifications') = Len(notifications) + 1
                /\ notifications'[Len(notifications')].alertEventId
                        = dispatches[i].eventId
                /\ notifications'[Len(notifications')].status
                        = IF dispatches'[i].state = "fulfilled"
                          THEN "SENT" ELSE "FAILED"
       /\ \A i \in 1..Len(dispatches') :
            dispatches'[i].state \in {"pending", "fulfilled", "rejected"}
      ]_vars

\* C8 witness: two alerts of one candle, the first dispatch threw and is
\* logged FAILED, the second returned afterwards and is logged SENT, and a
\* later candle was evaluated after the failure was logged.
OneFailsOtherSent ==
    \E i, j \in 1..Len(dispatches) :
        /\ i # j
        /\ dispatches[i].batch = dispatches[j].batch
        /\ dispatches[i].state = "rejected"
        /\ dispatches[j].state = "fulfilled"
        /\ \E m \in LogsOf(dispatches[i].eventId),
              n \in LogsOf(dispatches[j].eventId) :
              /\ m < n
              /\ notifications[m].status = "FAILED"
              /\ notifications[n].status = "SENT"
              /\ lastEval.final
              /\ lastEval.at > notifications[m].sentAt

\* C17: the alerts of an evaluated candle are stored as one AlertEvent
\* each, in order, and each has one dispatch; a dispatch still pending has
\* no NotificationLog, a dispatch that returned has exactly one, SENT and
\* without error, a dispatch that threw has exactly one, FAILED with the
\* error text; a settled dispatch never changes again and a log is never
\* removed or rewritten.
OneEventOneLog ==
    /\ [](/\ Len(dispatches) = Len(alerts)
          /\ \A i \in 1..Len(alerts) :
                /\ alerts[i].id = i
                /\ dispatches[i].eventId = i
                /\ dispatches[i].rule.id = alerts[i].ruleId
                /\ dispatches[i].state = "pending" => LogsOf(i) = {}
                /\ dispatches[i].state = "fulfilled" =>
                      /\ Cardinality(LogsOf(i)) = 1
                      /\ \A n \in LogsOf(i) :
                            /\ notifications[n].status = "SENT"
                            /\ notifications[n].error = <<>>
                /\ dispatches[i].state = "rejected" =>
                      /\ Cardinality(LogsOf(i)) = 1
                      /\ \A n \in LogsOf(i) :
                            /\ notifications[n].status = "FAILED"
                            /\ notifications[n].error # <<>>
          /\ \A n \in 1..Len(notifications) :
                notifications[n].alertEventId \in 1..Len(alerts))
    /\ [][/\ lastEval' # lastEval =>
                /\ Len(alerts') = Len(alerts) + Len(lastEval'.fired)
                /\ \A i \in 1..Len(lastEval'.fired) :
                      alerts'[Len(alerts) + i].ruleId = lastEval'.fired[i]
          /\ lastEval' = lastEval => alerts' = alerts
          /\ \A i \in 1..Len(dispatches) :
                dispatches[i].state # "pending" =>
                    dispatches'[i] = dispatches[i]
          /\ \A n \in 1..Len(notifications) :
                /\ n <= Len(notifications')
                /\ notifications'[n] = notifications[n]
         ]_vars

\* C17 witness: one candle triggered two alerts; the first dispatch
\* returned and was logged SENT, then the second threw and was logged
\* FAILED, and these are the only two logs.
SentThenFailedLogged ==
    /\ Len(alerts) = 2
    /\ Len(notifications) = 2
    /\ dispatches[1].batch = dispatches[2].batch
    /\ dispatches[1].state = "fulfilled"
    /\ dispatches[2].state = "rejected"
    /\ notifications[1].alertEventId = 1
    /\ notifications[1].status = "SENT"
    /\ notifications[2].alertEventId = 2
    /\ notifications[2].status = "FAILED"
    /\ notifications[2].error # <<>>

\* The positions in the alert store of the events with an id.
EventsWithId(eventId) == {i \in 1..Len(alerts) : alerts[i].id = eventId}

\* C27: every notification log names an alert event that is in the alert
\* store, exactly one, with the log's ruleId and userId; and every dispatch
\* that has started, settled or not, has its alert event in the store.
LogRefersToStoredEvent ==
    /\ \A n \in 1..Len(notifications) :
          /\ Cardinality(EventsWithId(notifications[n].alertEventId)) = 1
          /\ \A i \in EventsWithId(notifications[n].alertEventId) :
                /\ alerts[i].ruleId = notifications[n].ruleId
                /\ alerts[i].userId = notifications[n].userId
    /\ \A d \in 1..Len(dispatches) :
          /\ Cardinality(EventsWithId(dispatches[d].eventId)) = 1
          /\ \A i \in EventsWithId(dispatches[d].eventId) :
                /\ alerts[i].ruleId = dispatches[d].rule.id
                /\ alerts[i].userId = dispatches[d].userId

\* C27 witness: one candle triggered two rules; the dispatch of the second
\* threw and its log names the second event and its rule, while the
\* dispatch of the first is still pending with its event stored.
SecondLoggedFirstPending ==
    /\ Len(alerts) = 2
    /\ alerts[1].ruleId # alerts[2].ruleId
    /\ dispatches[1].state = "pending"
    /\ dispatches[2].state = "rejected"
    /\ Len(notifications) = 1
    /\ notifications[1].alertEventId = alerts[2].id
    /\ notifications[1].ruleId = alerts[2].ruleId

----------------------------------------------------------------------------
(* SpecBreakout: one enabled BREAKOUT rule on BTCUSDT 1m with any lookback  *)
(* and direction and no cooldown, fed candles of its own and of other keys  *)

MaxLookback == 2

Low == Shape(100, 97, 97, 30)

BreakoutRules ==
    {[i \in {1} |-> Rule(1, 1, "BTCUSDT", "BREAKOUT", "1m",
                          BreakoutParams(lookback, direction), TRUE, 0)] :
        lookback \in 0..MaxLookback, direction \in Directions}

BreakoutCandles ==
    {FeedCandle("BTCUSDT", "1m", shape, 1, TRUE) :
        shape \in {Flat, High, Low}}
    \cup {FeedCandle("BTCUSDT", "5m", High, 5, TRUE),
          FeedCandle("ETHUSDT", "1m", High, 1, TRUE)}

BreakoutInit ==
    /\ IdleInit
    /\ users = [u \in {1} |-> User(1, "FREE")]
    /\ rules \in BreakoutRules
    /\ ruleSeq = Len(rules)
    /\ telegramBotToken = FALSE

BreakoutNext == \E candle \in BreakoutCandles : OnCandle(candle)

SpecBreakout == BreakoutInit /\ [][BreakoutNext]_vars

\* The candles observed so far for the key of a BREAKOUT or VOLUME_SPIKE
\* rule.
Observed(rule) == appended[makeKey(rule.symbol, rule.timeframe)]

\* C5: a BREAKOUT rule with lookback N has an alert event, or a cooldown
\* timestamp, only if at least N + 1 finalized candles have been observed
\* for its (symbol, timeframe) key.
BreakoutNeedsHistory ==
    \A r \in DOMAIN rules :
        (/\ rules[r].type = "BREAKOUT"
         /\ \/ hasCooldown(ruleCooldowns, r)
            \/ \E i \in 1..Len(alerts) : alerts[i].ruleId = r)
        => Len(Observed(rules[r])) >= rules[r].params.lookback + 1

\* C5 witness: a rule with lookback 2 has seen two candles of its key, the
\* second one breaking past the first, and has not fired.
BreakoutHeldBackByHistory ==
    /\ lastEval.final
    /\ \E r \in DOMAIN rules :
          /\ rules[r].params.lookback = 2
          /\ Len(Observed(rules[r])) = 2
          /\ Matches(rules[r], lastEval.candle[1])
          /\ rules[r].timeframe = lastEval.candle[1].interval
          /\ checkBreakoutNoGuard(candles, users, rules[r],
                                  lastEval.candle[1], now).confirmed
          /\ alerts = <<>>
          /\ ~hasCooldown(ruleCooldowns, r)

----------------------------------------------------------------------------
(* SpecVolume: one enabled VOLUME_SPIKE rule on BTCUSDT 1m with any         *)
(* lookback and multiplier and no cooldown, fed candles of volume 1, 2, 3   *)

MaxMultiplier == 2
MaxVolume == 3

VolumeRules ==
    {[i \in {1} |-> Rule(1, 1, "BTCUSDT", "VOLUME_SPIKE", "1m",
                          VolumeSpikeParams(lookback, multiplier), TRUE, 0)] :
        lookback \in 0..MaxLookback, multiplier \in 1..MaxMultiplier}

VolumeCandles ==
    {FeedCandle("BTCUSDT", "1m", Shape(100, 100, 100, volume), 1, TRUE) :
        volume \in 1..MaxVolume}

VolumeInit ==
    /\ IdleInit
    /\ users = [u \in {1} |-> User(1, "FREE")]
    /\ rules \in VolumeRules
    /\ ruleSeq = Len(rules)
    /\ telegramBotToken = FALSE

VolumeNext == \E candle \in VolumeCandles : OnCandle(candle)

SpecVolume == VolumeInit /\ [][VolumeNext]_vars

\* The n candles observed immediately before the newest one of the list.
Preceding(observed, n) ==
    SubSeq(observed, Len(observed) - n, Len(observed) - 1)

\* volume >= multiplier * (mean volume of the window), the window non-empty,
\* in exact arithmetic.
ReachesSpike(volume, multiplier, window) ==
    volume * Len(window) >= multiplier * SumVolume(window)

\* The last evaluated candle reached an enabled rule that was free to fire.
Evaluated(r) ==
    /\ lastEval.final
    /\ rules[r].isEnabled
    /\ Matches(rules[r], lastEval.candle[1])
    /\ r \notin lastEval.blocked

Fired(r) == \E i \in 1..Len(lastEval.fired) : lastEval.fired[i] = r

----------------------------------------------------------------------------
(* SpecExtreme: two enabled EXTREME_MOVE rules on BTCUSDT with the same     *)
(* window and percent, any directions and no cooldown, fed 1m candles that  *)
(* close at 97, 100 or 103                                                  *)

MaxWindowMin == 1
MinPercent == 2
MaxPercent == 3

ExtremeRules ==
    {[i \in 1..2 |-> Rule(i, 1, "BTCUSDT", "EXTREME_MOVE", "null",
                           ExtremeMoveParams(windowMin, percent, direction[i]),
                           TRUE, 0)] :
        windowMin \in 0..MaxWindowMin, percent \in MinPercent..MaxPercent,
        direction \in [1..2 -> Directions]}

ExtremeCandles ==
    {FeedCandle("BTCUSDT", "1m", shape, 1, TRUE) :
        shape \in {Flat, High, Low}}

ExtremeInit ==
    /\ IdleInit
    /\ users = [u \in {1} |-> User(1, "FREE")]
    /\ rules \in ExtremeRules
    /\ ruleSeq = Len(rules)
    /\ telegramBotToken = FALSE

ExtremeNext == \E candle \in ExtremeCandles : OnCandle(candle)

SpecExtreme == ExtremeInit /\ [][ExtremeNext]_vars

\* The reference candle of a rule for the last evaluated candle, as a list
\* of zero or one candle.
Reference(rule) ==
    FindLastAtOrBefore(candles[makeKey(rule.symbol, "1m")],
        lastEval.candle[1].closeTime - rule.params.windowMin * 60 * 1000)

\* change >= percent and change <= -percent for
\* change = (close - reference) / reference * 100, in exact arithmetic and
\* for a positive reference price.
MovedUp(close, reference, percent) ==
    (close - reference) * 100 >= percent * reference
MovedDown(close, reference, percent) ==
    (close - reference) * 100 <= -percent * reference

AlertsOf(r) == {i \in 1..Len(alerts) : alerts[i].ruleId = r}

\* C7: an EXTREME_MOVE rule evaluated on a 1m candle for which a reference
\* candle is found fires exactly when its direction is UP and the change is
\* at least percent, or DOWN and the change at most -percent, or BOTH and
\* either; and the change it reports is
\* (close - reference.close) / reference.close * 100.
ExtremeMoveFiresByDirection ==
    \A r \in DOMAIN rules :
        (/\ rules[r].type = "EXTREME_MOVE"
         /\ Evaluated(r)
         /\ lastEval.candle[1].interval = "1m"
         /\ Reference(rules[r]) # <<>>)
        => LET close == lastEval.candle[1].close
               reference == Reference(rules[r])[1].close
               percent == rules[r].params.percent
               direction == rules[r].params.direction
               up == MovedUp(close, reference, percent)
               down == MovedDown(close, reference, percent)
           IN  /\ Fired(r) <=>
                    \/ direction = "UP" /\ up
                    \/ direction = "DOWN" /\ down
                    \/ direction = "BOTH" /\ (up \/ down)
               /\ Fired(r) =>
                    LET change ==
                          alerts[CHOOSE i \in AlertsOf(r) :
                                   \A j \in AlertsOf(r) : j <= i].payload.change
                    IN  /\ ~change.nan
                        /\ change.num * reference
                              = (close - reference) * 100 * change.den

\* C7 witness: reference close 100, current close 103, percent 2: the UP
\* rule fired and reports a change of 3, the DOWN rule did not fire.
ExtremeMoveExample ==
    /\ lastEval.final
    /\ lastEval.candle[1].close = 103
    /\ rules[1].params.direction = "UP"
    /\ rules[2].params.direction = "DOWN"
    /\ rules[1].params.percent = 2
    /\ Reference(rules[1]) # <<>>
    /\ Reference(rules[1])[1].close = 100
    /\ Fired(1)
    /\ ~Fired(2)
    /\ LET change == alerts[Len(alerts)].payload.change
       IN  change.num = 3 * change.den

----------------------------------------------------------------------------
(* More of SpecBreakout *)

\* The buffer of the key of a BREAKOUT or VOLUME_SPIKE rule.
BufferOf(rule) == candles[makeKey(rule.symbol, rule.timeframe)]

\* C19: a BREAKOUT rule with lookback N evaluated on a candle with at least
\* N + 1 candles in the buffer of its key judges the candle against the N
\* candles that precede it in the buffer: it fires exactly when its
\* direction is UP and the close is above every high of these, or DOWN and
\* the close is below every low, or BOTH and either; the alert reports UP
\* when the close is above every high and DOWN otherwise, and for N >= 1
\* it reports the highest high and the lowest low of these N candles.
BreakoutJudgesPrecedingWindow ==
    \A r \in DOMAIN rules :
        (/\ rules[r].type = "BREAKOUT"
         /\ Evaluated(r)
         /\ Len(BufferOf(rules[r])) >= rules[r].params.lookback + 1)
        => LET candle == lastEval.candle[1]
               buffer == BufferOf(rules[r])
               N == rules[r].params.lookback
               window == SubSeq(buffer, Len(buffer) - N, Len(buffer) - 1)
               direction == rules[r].params.direction
               up == \A i \in 1..N : candle.close > window[i].high
               down == \A i \in 1..N : candle.close < window[i].low
           IN  /\ buffer[Len(buffer)] = candle
               /\ Fired(r) <=>
                    \/ direction = "UP" /\ up
                    \/ direction = "DOWN" /\ down
                    \/ direction = "BOTH" /\ (up \/ down)
               /\ Fired(r) =>
                    LET payload ==
                          alerts[CHOOSE i \in AlertsOf(r) :
                                   \A j \in AlertsOf(r) : j <= i].payload
                    IN  /\ payload.direction = IF up THEN "UP" ELSE "DOWN"
                        /\ payload.close = candle.close
                        /\ N >= 1 =>
                              /\ payload.highest.inf = 0
                              /\ payload.lowest.inf = 0
                              /\ \A i \in 1..N :
                                    /\ window[i].high <= payload.highest.val
                                    /\ window[i].low >= payload.lowest.val
                              /\ \E i \in 1..N :
                                    window[i].high = payload.highest.val
                              /\ \E i \in 1..N :
                                    window[i].low = payload.lowest.val

\* C19 witness: a BOTH rule with lookback 1 saw a candle with low 97, then
\* one with high and low 103, then a candle closing at 100: it fired and
\* reports DOWN with highest and lowest 103; the first candle, outside the
\* window, did not count (100 is not below 97).
BreakoutDownReported ==
    /\ lastEval.final
    /\ rules[1].params = BreakoutParams(1, "BOTH")
    /\ Fired(1)
    /\ Len(BufferOf(rules[1])) = 3
    /\ BufferOf(rules[1])[1].low = 97
    /\ BufferOf(rules[1])[2].low = 103
    /\ BufferOf(rules[1])[3] = lastEval.candle[1]
    /\ lastEval.candle[1].close = 100
    /\ alerts[Len(alerts)].payload.direction = "DOWN"
    /\ alerts[Len(alerts)].payload.highest = Finite(103)
    /\ alerts[Len(alerts)].payload.lowest = Finite(103)

----------------------------------------------------------------------------
(* More of SpecExtreme *)

\* The candles of a rule's 1m buffer that precede the last evaluated one.
PriorCandles(rule) ==
    LET buffer == candles[makeKey(rule.symbol, "1m")]
    IN  SubSeq(buffer, 1, Len(buffer) - 1)

\* C20: the reference candle of an EXTREME_MOVE rule evaluated on a 1m
\* candle is the most recent of the candles before that candle whose
\* closeTime is at most the candle's closeTime minus windowMin minutes,
\* never the candle itself, and without such a candle the rule does not
\* fire; for every windowMin >= 0.
ReferenceIsPriorCandle ==
    \A r \in DOMAIN rules :
        (/\ rules[r].type = "EXTREME_MOVE"
         /\ Evaluated(r)
         /\ lastEval.candle[1].interval = "1m")
        => LET candle == lastEval.candle[1]
               cutoff == candle.closeTime
                            - rules[r].params.windowMin * 60 * 1000
               prior == FindLastAtOrBefore(PriorCandles(rules[r]), cutoff)
           IN  /\ Reference(rules[r]) = prior
               /\ Reference(rules[r]) # <<candle>>
               /\ prior = <<>> => ~Fired(r)

----------------------------------------------------------------------------
(* MarketDataService.subscribe and reconcileSubscriptions                   *)
(* (src/unnamed/part_000 lines 8-68, src/src/index.ts lines 79-99)          *)

\* The symbols rules are created with; none contains ':', so that the
\* `${symbol}:${timeframe}` target splits back into its two parts.
RuleSymbols == {"BTCUSDT", "btcusdt", "ETHUSDT"}

\* String.prototype.toLowerCase on those symbols.
toLowerCase(symbol) ==
    CASE symbol = "BTCUSDT" -> "btcusdt"
      [] symbol = "btcusdt" -> "btcusdt"
      [] symbol = "ETHUSDT" -> "ethusdt"

\* The stream key `${symbol.toLowerCase()}@kline_${interval}`.
StreamKey(symbol, interval) == <<toLowerCase(symbol), interval>>

\* A fresh WebSocket object: the first identity no live socket has.
NewSocket(cs) == CHOOSE i \in 1..(Cardinality(DOMAIN cs) + 1) : i \notin DOMAIN cs

\* Map.set(key, value) and Map.delete(key) on a map held as a function.
MapSet(map, key, value) ==
    [k \in DOMAIN map \cup {key} |-> IF k = key THEN value ELSE map[k]]

MapDelete(map, key) == [k \in DOMAIN map \ {key} |-> map[k]]

\* A subscribe without the sockets.has(key) check.
subscribeAlways(net, symbol, interval) ==
    LET key == StreamKey(symbol, interval)
        socket == NewSocket(net.conns)
    IN  [sockets |-> MapSet(net.sockets, key, socket),
         conns |-> MapSet(net.conns, socket, [key |-> key, state |-> "open"]),
         opened |-> net.opened \cup {socket}]

\* subscribe(symbol, interval): nothing when the key has a socket, else a
\* new WebSocket registered under the key.
subscribe(net, symbol, interval) ==
    LET key == StreamKey(symbol, interval)
        socket == NewSocket(net.conns)
    IN  IF key \in DOMAIN net.sockets THEN net
        ELSE [sockets |-> MapSet(net.sockets, key, socket),
              conns |-> MapSet(net.conns, socket,
                               [key |-> key, state |-> "open"]),
              opened |-> net.opened \cup {socket}]

\* The target of a rule: its symbol with 1m for EXTREME_MOVE, else with
\* its timeframe, or 1m when that is null.
TargetOf(rule) ==
    <<rule.symbol,
      IF rule.type = "EXTREME_MOVE" THEN "1m"
      ELSE IF rule.timeframe = "null" THEN "1m" ELSE rule.timeframe>>

\* The targets Set of one pass, in insertion order.
RECURSIVE TargetsOf(_, _, _)
TargetsOf(order, rs, found) ==
    IF order = <<>> THEN found
    ELSE LET target == TargetOf(rs[Head(order)])
         IN  TargetsOf(Tail(order), rs,
                       IF target \in Range(found) THEN found
                       ELSE Append(found, target))

\* A loop over the targets that returns after the first subscribe.
SubscribeFirst(targets, net) ==
    IF targets = <<>> THEN net
    ELSE subscribe(net, Head(targets)[1], Head(targets)[2])

\* for (const target of targets) marketData.subscribe(symbol, timeframe)
RECURSIVE SubscribeAll(_, _)
SubscribeAll(targets, net) ==
    IF targets = <<>> THEN net
    ELSE SubscribeAll(Tail(targets),
                      subscribe(net, Head(targets)[1], Head(targets)[2]))

\* A pass that builds the active set anew from the rules.
reconcileFromScratch(rs, socks, cs) ==
    SubscribeAll(TargetsOf(listRules(rs), rs, <<>>),
                 [sockets |-> <<>>, conns |-> <<>>, opened |-> {}])

\* reconcileSubscriptions: one pass over store.listRules().
reconcileSubscriptions(rs, socks, cs) ==
    SubscribeAll(TargetsOf(listRules(rs), rs, <<>>),
                 [sockets |-> socks, conns |-> cs, opened |-> {}])

\* The onReady hook and every setInterval tick run one pass.
Reconcile ==
    LET net == reconcileSubscriptions(rules, sockets, conns)
    IN  /\ sockets' = net.sockets
        /\ conns' = net.conns
        /\ lastReconcile' =
             [done |-> Min(lastReconcile.done + 1, 2),
              opened |-> net.opened]
        /\ UNCHANGED <<bufVars, now, storeVars, pipeVars>>

\* An error handler that also removes the key at once.
SocketErrorDropsKey(socket) ==
    /\ socket \in DOMAIN conns
    /\ conns' = [conns EXCEPT ![socket].state = "closing"]
    /\ sockets' = MapDelete(sockets, conns[socket].key)
    /\ lastReconcile' = [lastReconcile EXCEPT !.done = 0]
    /\ UNCHANGED <<bufVars, now, storeVars, pipeVars>>

\* socket.on('error'): socket.close(), which starts the closing handshake.
SocketError(socket) ==
    /\ socket \in DOMAIN conns
    /\ conns' = [conns EXCEPT ![socket].state = "closing"]
    /\ lastReconcile' = [lastReconcile EXCEPT !.done = 0]
    /\ UNCHANGED <<bufVars, now, storeVars, pipeVars, sockets>>

\* A close handler that leaves the key in the map.
SocketCloseKeepsKey(socket) ==
    /\ socket \in DOMAIN conns
    /\ conns' = MapDelete(conns, socket)
    /\ lastReconcile' = [lastReconcile EXCEPT !.done = 0]
    /\ UNCHANGED <<bufVars, now, storeVars, pipeVars, sockets>>

\* socket.on('close'): sockets.delete(key); the socket object is dead.
SocketClose(socket) ==
    /\ socket \in DOMAIN conns
    /\ sockets' = MapDelete(sockets, conns[socket].key)
    /\ conns' = MapDelete(conns, socket)
    /\ lastReconcile' = [lastReconcile EXCEPT !.done = 0]
    /\ UNCHANGED <<bufVars, now, storeVars, pipeVars>>

----------------------------------------------------------------------------
(* POST /rules and DELETE /rules/:id (src/src/api/routes.ts lines 42-96)    *)

maxRulesFree == 3
maxRulesPro == 20

\* InMemoryStore.createRule: the payload stored under a new id, last in
\* the map's insertion order.
createRule(rs, id, payload) ==
    MapSet(rs, id,
           Rule(id, payload.userId, payload.symbol, payload.type,
                payload.timeframe, payload.params, payload.isEnabled,
                payload.cooldownSec))

\* The rules a user owns, as the limit check counts them.
activeRules(rs, userId) ==
    Cardinality({id \in DOMAIN rs : rs[id].userId = userId})

\* POST /rules with a well-formed body: 404 for an unknown user, 403 at
\* the plan's limit, else the rule is created enabled.
PostRule(body) ==
    /\ ruleSeq < MaxRules
    /\ getUser(users, body.userId) # <<>>
    /\ LET user == getUser(users, body.userId)[1]
           maxRules == IF user.plan = "PRO" THEN maxRulesPro ELSE maxRulesFree
       IN  activeRules(rules, user.id) < maxRules
    /\ ruleSeq' = ruleSeq + 1
    /\ rules' = createRule(rules, ruleSeq + 1,
                           [userId |-> body.userId, symbol |-> body.symbol,
                            type |-> body.type, timeframe |-> body.timeframe,
                            params |-> body.params, isEnabled |-> TRUE,
                            cooldownSec |-> 900])
    /\ lastReconcile' = [lastReconcile EXCEPT !.done = 0]
    /\ UNCHANGED <<bufVars, now, users, ruleCooldowns, alerts, notifications,
                   pipeVars, sockets, conns>>

\* DELETE /rules/:id
DeleteRule(id) ==
    /\ id \in DOMAIN rules
    /\ rules' = MapDelete(rules, id)
    /\ lastReconcile' = [lastReconcile EXCEPT !.done = 0]
    /\ UNCHANGED <<bufVars, now, users, ruleSeq, ruleCooldowns, alerts,
                   notifications, pipeVars, sockets, conns>>

----------------------------------------------------------------------------
(* SpecSub: rules are created, switched and deleted over the API while      *)
(* reconciliation passes run and sockets fail and close                     *)

\* Well-formed POST /rules bodies: two spellings of one symbol on 5m, an
\* extreme-move rule, which is served by the 1m stream whatever its
\* timeframe, and a rule without timeframe.
SubBodies ==
    {[userId |-> 1, symbol |-> b[1], type |-> b[2], timeframe |-> b[3],
      params |-> b[4]] :
       b \in {<<"BTCUSDT", "BREAKOUT", "5m", BreakoutParams(1, "BOTH")>>,
              <<"btcusdt", "BREAKOUT", "5m", BreakoutParams(1, "BOTH")>>,
              <<"BTCUSDT", "EXTREME_MOVE", "5m", ExtremeMoveParams(1, 2, "BOTH")>>,
              <<"ETHUSDT", "VOLUME_SPIKE", "null", VolumeSpikeParams(1, 2)>>}}

SubInit ==
    /\ IdleInit
    /\ users = [u \in {1} |-> User(1, "FREE")]
    /\ rules = <<>>
    /\ ruleSeq = 0
    /\ telegramBotToken = FALSE

SubNext ==
    \/ \E body \in SubBodies : PostRule(body)
    \/ \E id \in DOMAIN rules, updates \in PipePatches : PatchRule(id, updates)
    \/ \E id \in DOMAIN rules : DeleteRule(id)
    \/ Reconcile
    \/ \E socket \in DOMAIN conns : SocketError(socket)
    \/ \E socket \in DOMAIN conns : SocketClose(socket)

SpecSub == SubInit /\ [][SubNext]_vars

\* The stream keys the rules chosen by keep require.
RequiredKeys(rs, keep(_)) ==
    {StreamKey(TargetOf(rs[id])[1], TargetOf(rs[id])[2]) :
       id \in {i \in DOMAIN rs : keep(rs[i])}}

AnyRule(rule) == TRUE
EnabledRule(rule) == rule.isEnabled

\* The sockets of a key that have not emitted close.
Live(key) == {i \in DOMAIN conns : conns[i].key = key}

\* A key has exactly one active connection: the socket registered under
\* it is the only socket of the key that has not closed.
ExactlyOne(key) ==
    /\ key \in DOMAIN sockets
    /\ Live(key) = {sockets[key]}

\* The state a pass has left: lastReconcile.done counts the passes that
\* ran since a rule was last written or a socket last failed or closed.
AfterPass == lastReconcile.done >= 1

\* C9: when a pass is followed by another with the rule set unchanged,
\* the second opens no connection and every required key has exactly one
\* active connection.
ReconcileIsIdempotent ==
    lastReconcile.done = 2
        => /\ lastReconcile.opened = {}
           /\ \A key \in RequiredKeys(rules, AnyRule) : ExactlyOne(key)
           /\ \A key \in DOMAIN sockets : Live(key) = {sockets[key]}

\* Two passes in a row over two rules that spell one symbol differently
\* and so require the same key.
SecondPassOpenedNothing ==
    /\ lastReconcile.done = 2
    /\ Cardinality({rules[id].symbol : id \in DOMAIN rules}) = 2
    /\ Cardinality(RequiredKeys(rules, AnyRule)) = 1

\* C10 as stated: after every pass the active connections are exactly the
\* keys that enabled rules require.
ActiveEqualsEnabledKeys ==
    AfterPass => DOMAIN sockets = RequiredKeys(rules, EnabledRule)

\* C10 as amended: after every pass every key that an enabled rule
\* requires has exactly one active connection, and the connections of
\* keys that no enabled rule requires are still there.
EnabledKeysAreConnected ==
    AfterPass =>
        /\ \A key \in RequiredKeys(rules, EnabledRule) : ExactlyOne(key)
        /\ RequiredKeys(rules, AnyRule) \subseteq DOMAIN sockets

\* A pass has run over an enabled rule, and a key that no enabled rule
\* requires is still connected.
StaleKeysStayConnected ==
    /\ AfterPass
    /\ RequiredKeys(rules, EnabledRule) # {}
    /\ \E key \in DOMAIN sockets : key \notin RequiredKeys(rules, EnabledRule)

\* C21: a step of a reconciliation pass keeps every entry of the active
\* set and every connection as it was, required or not; and in any step an
\* entry leaves the active set, or changes, only when the connection
\* registered under it emits close in that step.
PassOnlyAddsConnections ==
    [][/\ lastReconcile'.done >= 1 =>
            /\ \A key \in DOMAIN sockets :
                  /\ key \in DOMAIN sockets'
                  /\ sockets'[key] = sockets[key]
            /\ \A socket \in DOMAIN conns :
                  /\ socket \in DOMAIN conns'
                  /\ conns'[socket] = conns[socket]
       /\ \A key \in DOMAIN sockets :
            (key \notin DOMAIN sockets' \/ sockets'[key] # sockets[key]) =>
                /\ sockets[key] \in DOMAIN conns
                /\ sockets[key] \notin DOMAIN conns'
                /\ lastReconcile'.done = 0
      ]_vars

\* C21 witness: a pass has just opened a connection while the connection
\* of a key that no rule requires any more stayed in the active set.
PassKeptUnrequiredConnection ==
    /\ AfterPass
    /\ lastReconcile.opened # {}
    /\ \E key \in DOMAIN sockets :
          /\ key \notin RequiredKeys(rules, AnyRule)
          /\ Live(key) = {sockets[key]}
          /\ sockets[key] \notin lastReconcile.opened

----------------------------------------------------------------------------
(* The message handler of MarketDataService.subscribe                       *)
(* (src/unnamed/part_000 lines 18-48)                                       *)

\* A raw frame: text that is no JSON, or a JSON object whose member k is
\* missing (k = <<>>) or an object with some of the kline members.  The
\* decimal strings of a frame are held as the numbers they denote.
TextFrame == [kind |-> "text", k |-> <<>>]
JsonFrame(k) == [kind |-> "json", k |-> k]

KlineMembers == {"T", "s", "i", "h", "l", "c", "v", "x"}

\* The frame the exchange sends for a candle.
FrameOf(candle) ==
    JsonFrame(<<[T |-> candle.closeTime, s |-> candle.symbol,
                 i |-> candle.interval, h |-> candle.high, l |-> candle.low,
                 c |-> candle.close, v |-> candle.volume,
                 x |-> candle.isFinal]>>)

\* parsed.k.<member> of an object that may lack it.
Member(k, name) == IF name \in DOMAIN k THEN k[name] ELSE Undefined

\* Number(parsed.k.<member>): NaN for a missing member.
NumberOf(k, name) == IF name \in DOMAIN k THEN k[name] ELSE "NaN"

\* JSON.parse(data.toString()) throws a SyntaxError, or parsed.k.t a
\* TypeError; nothing in the handler catches either.
HandlerThrows(frame) == frame.kind = "text" \/ frame.k = <<>>

\* The candle the handler builds from parsed.k.  isFinal holds whether
\* parsed.k.x is truthy, which is all the callback reads of it.
CandleOfFrame(frame) ==
    LET k == frame.k[1]
    IN  IF DOMAIN k = KlineMembers
        THEN Candle(k.s, k.i, k.T, k.h, k.l, k.c, k.v, k.x)
        ELSE [symbol |-> Member(k, "s"), interval |-> Member(k, "i"),
              openTime |-> Undefined, closeTime |-> Member(k, "T"),
              open |-> "NaN", high |-> NumberOf(k, "h"),
              low |-> NumberOf(k, "l"), close |-> NumberOf(k, "c"),
              volume |-> NumberOf(k, "v"),
              isFinal |-> "x" \in DOMAIN k /\ k.x]

\* socket.on('message'): parse, build the candle, call onCandle.  An
\* exception leaves the handler towards the socket's emit call; whether
\* the process survives it is decided outside this repository.
OnMessage(socket, frame) ==
    /\ socket \in DOMAIN conns
    /\ IF HandlerThrows(frame)
       THEN /\ process.thrown < MaxThrown
            /\ \E state \in {"running", "ended"} :
                 process' = [state |-> state, thrown |-> process.thrown + 1,
                             last |-> frame.kind]
            /\ UNCHANGED <<bufVars, now, storeVars, dispatches,
                           telegramBotToken, lastEval, subVars>>
       ELSE OnCandle(CandleOfFrame(frame))

----------------------------------------------------------------------------
(* SpecFrames: one BREAKOUT rule on BTCUSDT 1m, its stream connected by a   *)
(* reconciliation pass, delivering well-formed and malformed frames         *)

FrameRules ==
    [i \in {1} |-> Rule(1, 1, "BTCUSDT", "BREAKOUT", "1m",
                        BreakoutParams(1, "BOTH"), TRUE, 0)]

\* Frames that are no JSON, lack k, have an empty k, or a k with x only.
MalformedFrames ==
    {TextFrame, JsonFrame(<<>>), JsonFrame(<<[n \in {} |-> 0]>>),
     JsonFrame(<<[x |-> TRUE]>>)}

WellFormedFrames ==
    {FrameOf(FeedCandle("BTCUSDT", "1m", shape, 1, final)) :
        shape \in {Flat, High}, final \in BOOLEAN}

FramesInit ==
    /\ IdleInit
    /\ users = [u \in {1} |-> User(1, "FREE")]
    /\ rules = FrameRules
    /\ ruleSeq = Len(rules)
    /\ telegramBotToken = FALSE

\* Nothing runs in a process that has ended.
Running == process.state = "running"

FramesNext ==
    \/ Running /\ Reconcile
    \/ \E socket \in DOMAIN conns, frame \in MalformedFrames :
         Running /\ OnMessage(socket, frame)
    \/ \E socket \in DOMAIN conns, frame \in WellFormedFrames :
         Running /\ OnMessage(socket, frame)
    \/ \E socket \in DOMAIN conns : Running /\ SocketClose(socket)

SpecFrames == FramesInit /\ [][FramesNext]_vars

\* C12: a malformed frame is dropped: no error leaves the message handler,
\* the process keeps running, and no candle built from such a frame is
\* stored.
MalformedFrameIsDropped ==
    /\ process.thrown = 0
    /\ process.state = "running"
    /\ candles[makeKey(Undefined, Undefined)] = <<>>

----------------------------------------------------------------------------
(* SpecRecover: two rules on two stream keys, connected by the onReady      *)
(* pass; sockets fail and close, rules are deleted, and the                 *)
(* 30 s timer keeps running reconciliation passes                           *)

RecoverRules ==
    [i \in 1..2 |->
        IF i = 1
        THEN Rule(1, 1, "BTCUSDT", "BREAKOUT", "5m",
                  BreakoutParams(1, "BOTH"), TRUE, 900)
        ELSE Rule(2, 1, "ETHUSDT", "EXTREME_MOVE", "null",
                  ExtremeMoveParams(1, 2, "BOTH"), TRUE, 900)]

RecoverKeys == RequiredKeys(RecoverRules, AnyRule)

\* The sockets a process can hold at once: one per key.
SocketIds == 1..Cardinality(RecoverKeys)

\* The state the onReady pass leaves.
RecoverInit ==
    /\ candles = EmptyStore
    /\ appended = EmptyStore
    /\ capacity = DefaultMax
    /\ held = <<>>
    /\ now = StartNow
    /\ users = [u \in {1} |-> User(1, "FREE")]
    /\ rules = RecoverRules
    /\ ruleSeq = Len(rules)
    /\ ruleCooldowns = <<>>
    /\ alerts = <<>>
    /\ notifications = <<>>
    /\ dispatches = <<>>
    /\ telegramBotToken = FALSE
    /\ lastEval = NoEval
    /\ process = Started
    /\ LET net == reconcileSubscriptions(rules, <<>>, <<>>)
       IN  /\ sockets = net.sockets
           /\ conns = net.conns
           /\ lastReconcile = [done |-> 1, opened |-> net.opened]

\* The close event that follows socket.close().
ClosingSocketCloses(socket) ==
    /\ socket \in DOMAIN conns
    /\ conns[socket].state = "closing"
    /\ SocketClose(socket)

RecoverNext ==
    \/ Reconcile
    \/ \E socket \in DOMAIN conns : SocketError(socket)
    \/ \E socket \in DOMAIN conns : SocketClose(socket)
    \/ \E id \in DOMAIN rules : DeleteRule(id)

\* A pass of the timer that finds a required key without socket.
PassWithKeyMissing ==
    /\ RequiredKeys(rules, AnyRule) \ DOMAIN sockets # {}
    /\ Reconcile

\* setInterval runs a pass again and again, so a key that stays missing
\* meets a pass; and a socket that was told to close emits close.
SpecRecover ==
    /\ RecoverInit
    /\ [][RecoverNext]_vars
    /\ WF_vars(PassWithKeyMissing)
    /\ \A socket \in SocketIds : WF_vars(ClosingSocketCloses(socket))

\* The key has a socket in the map that has not failed.
Connected(key) ==
    /\ key \in DOMAIN sockets
    /\ sockets[key] \in DOMAIN conns
    /\ conns[sockets[key]].state = "open"

\* C13: the step in which a socket closes removes its key from the map
\* and opens nothing; a failed socket is only told to close; and a key
\* that some rule requires and that has no working connection gets one
\* again, unless its rules are deleted first.
LostConnectionIsReopened ==
    /\ [][/\ \A socket \in DOMAIN conns \ DOMAIN conns' :
               /\ conns[socket].key \notin DOMAIN sockets'
               /\ DOMAIN conns' \subseteq DOMAIN conns
          /\ \A socket \in DOMAIN conns \cap DOMAIN conns' :
               conns'[socket].state # conns[socket].state
                   => sockets' = sockets /\ DOMAIN conns' = DOMAIN conns
         ]_vars
    /\ \A key \in RecoverKeys :
          (key \in RequiredKeys(rules, AnyRule) /\ ~Connected(key))
              ~> (Connected(key) \/ key \notin RequiredKeys(rules, AnyRule))

\* C13 witness: after the onReady pass opened both keys, a later pass
\* opened one socket, and both keys are required and connected.
ReopenedAfterLoss ==
    /\ lastReconcile.done >= 1
    /\ Cardinality(lastReconcile.opened) = 1
    /\ RequiredKeys(rules, AnyRule) = RecoverKeys
    /\ \A key \in RecoverKeys : Connected(key)

\* C24: at every moment each key has at most one connection that has not
\* emitted close, and that connection is the one registered under the key;
\* and the step in which a connection emits close removes the entry that
\* holds this very connection and leaves the entries of all other keys as
\* they were.
OneConnectionPerKey ==
    /\ [](/\ \A key \in Keys \cup DOMAIN sockets \cup
                        {conns[c].key : c \in DOMAIN conns} :
                Cardinality(Live(key)) <= 1
          /\ \A socket \in DOMAIN conns :
                /\ conns[socket].key \in DOMAIN sockets
                /\ sockets[conns[socket].key] = socket)
    /\ [][\A socket \in DOMAIN conns \ DOMAIN conns' :
             /\ sockets[conns[socket].key] = socket
             /\ \A key \in DOMAIN sockets \ {conns[socket].key} :
                   /\ key \in DOMAIN sockets'
                   /\ sockets'[key] = sockets[key]
         ]_vars

\* C24 witness: after the connection of a key closed, a pass opened a new
\* one for it, which is the only one of its key, while the connection of
\* the other key has failed and not yet emitted close.
ReopenedBesideClosing ==
    /\ lastReconcile.done >= 1
    /\ Cardinality(lastReconcile.opened) = 1
    /\ \E key, other \in DOMAIN sockets :
          /\ key # other
          /\ sockets[key] \in lastReconcile.opened
          /\ Live(key) = {sockets[key]}
          /\ conns[sockets[key]].state = "open"
          /\ conns[sockets[other]].state = "closing"

----------------------------------------------------------------------------
(* SpecOrphan: a BREAKOUT and a VOLUME_SPIKE rule on BTCUSDT 1m without     *)
(* cooldown, whose userId PATCH /rules/:id can set to a user that does not  *)
(* exist                                                                    *)

OrphanRules ==
    {[i \in 1..2 |->
        IF i = 1
        THEN Rule(1, owner, "BTCUSDT", "BREAKOUT", "1m",
                  BreakoutParams(1, "BOTH"), TRUE, 0)
        ELSE Rule(2, 1, "BTCUSDT", "VOLUME_SPIKE", "1m",
                  VolumeSpikeParams(1, 2), TRUE, 0)] : owner \in {1}}

OrphanCandles ==
    {FeedCandle("BTCUSDT", "1m", shape, 1, TRUE) : shape \in {Flat, High}}

\* User 1 exists, user 2 does not.
OrphanPatches == {[userId |-> 1], [userId |-> 2]}

OrphanInit ==
    /\ IdleInit
    /\ users = [u \in {1} |-> User(1, "FREE")]
    /\ rules \in OrphanRules
    /\ ruleSeq = Len(rules)
    /\ telegramBotToken = FALSE

OrphanNext ==
    \/ \E candle \in OrphanCandles : OnCandle(candle)
    \/ \E id \in DOMAIN rules, updates \in OrphanPatches :
         PatchRule(id, updates)

SpecOrphan == OrphanInit /\ [][OrphanNext]_vars

\* C14: when a final candle is evaluated, a matching enabled rule whose
\* condition holds gets no alert event, dispatch or notification log if
\* its user does not exist, and gets its alert event if the user exists.
MissingUserDropsTrigger ==
    [][(lastEval' # lastEval /\ lastEval'.final) =>
         \A r \in DOMAIN rules :
            (/\ rules[r].isEnabled
             /\ Matches(rules[r], lastEval'.candle[1])
             /\ CheckByType(candles', users, rules[r], lastEval'.candle[1],
                            now).confirmed)
            => IF getUser(users, rules[r].userId) = <<>>
               THEN /\ r \notin NewAlertRules
                    /\ r \notin NewDispatchRules
                    /\ r \notin NewNotificationRules
               ELSE /\ r \in NewAlertRules
                    /\ r \in NewNotificationRules]_vars

\* C14 witness: the last candle met the conditions of both rules; the one
\* whose user is missing has never had an alert, the other one has an
\* alert and a log from this candle.
OrphanDroppedOtherFired ==
    /\ lastEval.final
    /\ \E r, q \in DOMAIN rules :
          /\ getUser(users, rules[r].userId) = <<>>
          /\ getUser(users, rules[q].userId) # <<>>
          /\ r \in lastEval.confirmed
          /\ ConditionHolds(rules[r], lastEval.candle[1])
          /\ ConditionHolds(rules[q], lastEval.candle[1])
          /\ \A i \in 1..Len(alerts) : alerts[i].ruleId # r
          /\ \A i \in 1..Len(notifications) : notifications[i].ruleId # r
          /\ \E i \in 1..Len(alerts) :
                /\ alerts[i].ruleId = q
                /\ alerts[i].triggeredAt = lastEval.at
                /\ LogsOf(alerts[i].id) # {}

----------------------------------------------------------------------------
(* SpecEdit: one BREAKOUT rule with lookback 0, which every candle of its   *)
(* key satisfies, a cooldown of one second, and PATCH and DELETE requests   *)
(* between the candles                                                      *)

EditRules ==
    [i \in {1} |-> Rule(1, 1, "BTCUSDT", "BREAKOUT", "1m",
                        BreakoutParams(0, "UP"), TRUE, 1)]

EditCandles == {FeedCandle("BTCUSDT", "1m", Flat, 1, TRUE)}

\* PATCH bodies: a shorter and a longer cooldown, other parameters, and a
\* body that overwrites the id member of the stored rule.
EditPatches ==
    {[cooldownSec |-> 0], [cooldownSec |-> 2],
     [params |-> BreakoutParams(0, "BOTH")], [id |-> 2]}

EditInit ==
    /\ IdleInit
    /\ users = [u \in {1} |-> User(1, "FREE")]
    /\ rules = EditRules
    /\ ruleSeq = Len(rules)
    /\ telegramBotToken = FALSE

EditNext ==
    \/ Tick
    \/ \E candle \in EditCandles : OnCandle(candle)
    \/ \E id \in DOMAIN rules, updates \in EditPatches : PatchRule(id, updates)
    \/ \E id \in DOMAIN rules : DeleteRule(id)

SpecEdit == EditInit /\ [][EditNext]_vars

\* The timestamp the engine reads for a stored rule is inside the window
\* of the rule's current cooldownSec.
InCooldownById(rule) ==
    /\ hasCooldown(ruleCooldowns, rule.id)
    /\ now - ruleCooldowns[rule.id] < rule.cooldownSec * 1000

----------------------------------------------------------------------------
(* SpecAlias: a caller of CandleStore.get keeps the array it was given      *)
(* while candles are added, and removes elements from it                    *)

\* The Map has an array for the key once a candle was added under it.
HasArray(key) == appended[key] # <<>>

\* candleStore.get(symbol, interval) called by code that keeps the
\* result: the Map's own array (live), or a new [] when the key is absent.
\* seen is the content at the time of the call.
CallerGets(symbol, interval) ==
    LET key == makeKey(symbol, interval)
    IN  /\ held' = <<[key |-> key, live |-> HasArray(key),
                      own |-> <<>>,
                      seen |-> CandleStoreGet(candles, symbol, interval),
                      mutated |-> FALSE]>>
        /\ UNCHANGED <<candles, appended, capacity, now, storeVars, pipeVars,
                       subVars>>

\* What the caller's array holds now.
HeldArray ==
    IF held[1].live THEN candles[held[1].key] ELSE held[1].own

\* The caller calls pop() on the array it holds.
CallerPops ==
    /\ held # <<>>
    /\ HeldArray # <<>>
    /\ IF held[1].live
       THEN /\ candles' = [candles EXCEPT ![held[1].key] =
                              SubSeq(@, 1, Len(@) - 1)]
            /\ held' = <<[held[1] EXCEPT !.mutated = TRUE]>>
       ELSE /\ held' = <<[held[1] EXCEPT
                            !.own = SubSeq(@, 1, Len(@) - 1),
                            !.mutated = TRUE]>>
            /\ UNCHANGED candles
    /\ UNCHANGED <<appended, capacity, now, storeVars, pipeVars, subVars>>

AliasNext ==
    \/ \E candle \in BufCandles : BufAdd(candle)
    \/ \E symbol \in Symbols : CallerGets(symbol, "1m")
    \/ CallerPops

SpecAlias == BufInit /\ [][AliasNext]_vars

\* C16: the sequence get returned is a snapshot: while its holder has not
\* changed it, it is what it was when returned, whatever was added since;
\* and the stored buffers are what add made them, whatever a holder did
\* to a sequence.
GetReturnsSnapshot ==
    /\ (held # <<>> /\ ~held[1].mutated) => HeldArray = held[1].seen
    /\ \A k \in Keys :
          candles[k] = LastItems(appended[k], Min(Len(appended[k]), capacity))

----------------------------------------------------------------------------
(* SpecLimit: users and rules are created over POST /users, POST /rules     *)
(* and the form endpoint POST /settings/rules                               *)

MaxUsers == 2
MaxCreated == 4

Plans == {"FREE", "PRO"}

\* InMemoryStore.createUser: the user stored under a new id.
createUser(us, payload) ==
    MapSet(us, Cardinality(DOMAIN us) + 1,
           User(Cardinality(DOMAIN us) + 1, payload.plan))

\* POST /users with a telegramChatId.
PostUser(body) ==
    /\ Cardinality(DOMAIN users) < MaxUsers
    /\ users' = createUser(users, [plan |-> body.plan])
    /\ UNCHANGED <<bufVars, now, rules, ruleSeq, ruleCooldowns, alerts,
                   notifications, pipeVars, subVars>>

\* POST /settings/rules with a well-formed form: 404 for an unknown user,
\* else the rule is created; isEnabled is anything but the text 'false'.
PostSettingsRule(form) ==
    /\ ruleSeq < MaxCreated
    /\ getUser(users, form.userId) # <<>>
    /\ ruleSeq' = ruleSeq + 1
    /\ rules' = createRule(rules, ruleSeq + 1,
                           [userId |-> form.userId, symbol |-> form.symbol,
                            type |-> form.type, timeframe |-> form.timeframe,
                            params |-> form.params,
                            isEnabled |-> form.isEnabled # "false",
                            cooldownSec |-> 900])
    /\ lastReconcile' = [lastReconcile EXCEPT !.done = 0]
    /\ UNCHANGED <<bufVars, now, users, ruleCooldowns, alerts, notifications,
                   pipeVars, sockets, conns>>

LimitBodies ==
    {[userId |-> u, symbol |-> "BTCUSDT", type |-> "BREAKOUT",
      timeframe |-> "1m", params |-> BreakoutParams(1, "UP")] :
        u \in 1..MaxUsers}

LimitForms ==
    {[userId |-> u, symbol |-> "BTCUSDT", type |-> "BREAKOUT",
      timeframe |-> "1m", params |-> BreakoutParams(1, "UP"),
      isEnabled |-> e] :
        u \in 1..MaxUsers, e \in {Undefined, "false"}}

LimitInit ==
    /\ IdleInit
    /\ users = <<>>
    /\ rules = <<>>
    /\ ruleSeq = 0
    /\ telegramBotToken = FALSE

LimitNext ==
    \/ \E plan \in Plans : PostUser([plan |-> plan])
    \/ \E body \in LimitBodies : PostRule(body)
    \/ \E form \in LimitForms : PostSettingsRule(form)

SpecLimit == LimitInit /\ [][LimitNext]_vars

maxRulesOf(user) ==
    IF user.plan = "PRO" THEN maxRulesPro ELSE maxRulesFree

\* C18: no user owns more rules than the plan of the user allows.
RulesWithinPlanLimit ==
    \A u \in DOMAIN users : activeRules(rules, u) <= maxRulesOf(users[u])

----------------------------------------------------------------------------
(* SpecKeys: a 1m BREAKOUT rule and an EXTREME_MOVE rule on BTCUSDT, fed    *)
(* final candles of three keys                                              *)

KeysInit ==
    /\ IdleInit
    /\ users = [u \in {1} |-> User(1, "FREE")]
    /\ rules = DispatchRules
    /\ ruleSeq = Len(rules)
    /\ telegramBotToken = FALSE

KeysNext == \E candle \in BreakoutCandles : OnCandle(candle)

SpecKeys == KeysInit /\ [][KeysNext]_vars

\* How often a candle occurs in a list.
Occurrences(list, candle) ==
    Cardinality({i \in 1..Len(list) : list[i] = candle})

\* C25: the step that evaluates a final candle appends it once to the
\* buffer of its own (symbol, interval) key, dropping the oldest entry of a
\* full buffer, and leaves the buffer of every other key as it was; this
\* holds for 1m candles as well.
CandleAppendedOnce ==
    [][(lastEval' # lastEval /\ lastEval'.final) =>
          LET candle == lastEval'.candle[1]
              own == makeKey(candle.symbol, candle.interval)
          IN  /\ candles'[own] =
                    IF Len(candles[own]) < DefaultMax
                    THEN Append(candles[own], candle)
                    ELSE Append(Tail(candles[own]), candle)
              /\ Occurrences(candles'[own], candle) = 1
              /\ \A key \in DOMAIN candles \ {own} :
                    candles'[key] = candles[key]
      ]_vars

\* C25 witness: the last candle is a 1m candle on which both the BREAKOUT
\* rule and the EXTREME_MOVE rule fired; it is the newest entry of its
\* buffer and occurs there once, and another key's buffer holds its own
\* candle only.
OneMinuteCandleStoredOnce ==
    /\ lastEval.final
    /\ lastEval.candle[1].interval = "1m"
    /\ lastEval.fired = <<1, 2>>
    /\ LET own == candles[makeKey("BTCUSDT", "1m")]
       IN  /\ Len(own) = 2
           /\ own[2] = lastEval.candle[1]
           /\ Occurrences(own, lastEval.candle[1]) = 1
    /\ \E key \in DOMAIN candles \ {makeKey("BTCUSDT", "1m")} :
          /\ Len(candles[key]) = 1
          /\ candles[key] = appended[key]

----------------------------------------------------------------------------
(* SpecTypes: one enabled rule on BTCUSDT of any type, with timeframe 1m    *)
(* or none and no cooldown, fed final 1m candles                            *)

TypeRules ==
    {[i \in {1} |-> Rule(1, 1, "BTCUSDT", kind[1], timeframe, kind[2],
                          TRUE, 0)] :
        kind \in {<<"BREAKOUT", BreakoutParams(1, "BOTH")>>,
                  <<"VOLUME_SPIKE", VolumeSpikeParams(1, 2)>>,
                  <<"EXTREME_MOVE", ExtremeMoveParams(1, 2, "BOTH")>>},
        timeframe \in {"1m", "null"}}

TypesInit ==
    /\ IdleInit
    /\ users = [u \in {1} |-> User(1, "FREE")]
    /\ rules \in TypeRules
    /\ ruleSeq = Len(rules)
    /\ telegramBotToken = FALSE

TypesNext == \E candle \in ExtremeCandles : OnCandle(candle)

SpecTypes == TypesInit /\ [][TypesNext]_vars

\* C26: the step that evaluates a final candle stores at most one alert
\* event per rule, whatever the rule's type and timeframe.
OneAlertPerRulePerCandle ==
    [][\A r \in DOMAIN rules :
          Cardinality({i \in Len(alerts) + 1..Len(alerts') :
                          alerts'[i].ruleId = r}) <= 1
      ]_vars

\* C26 witness: an EXTREME_MOVE rule whose timeframe is 1m and which has
\* no cooldown fired on the last candle, and has exactly one alert.
ExtremeRuleOnOneMinuteFiredOnce ==
    /\ lastEval.final
    /\ rules[1].type = "EXTREME_MOVE"
    /\ rules[1].timeframe = "1m"
    /\ rules[1].cooldownSec = 0
    /\ lastEval.fired = <<1>>
    /\ Len(alerts) = 1
    /\ alerts[1].ruleId = 1
    /\ Len(candles[makeKey("BTCUSDT", "1m")]) = 2

----------------------------------------------------------------------------
(* SpecAbsent: one rule of any type with a cooldown of one second, whose    *)
(* userId PATCH /rules/:id sets to a missing user and back, while the       *)
(* clock advances                                                           *)

AbsentRules ==
    {[i \in {1} |-> Rule(1, 1, "BTCUSDT", kind[1], kind[2], kind[3],
                          TRUE, 1)] :
        kind \in {<<"BREAKOUT", "1m", BreakoutParams(1, "BOTH")>>,
                  <<"VOLUME_SPIKE", "1m", VolumeSpikeParams(1, 1)>>,
                  <<"EXTREME_MOVE", "null", ExtremeMoveParams(1, 2, "BOTH")>>}}

AbsentInit ==
    /\ IdleInit
    /\ users = [u \in {1} |-> User(1, "FREE")]
    /\ rules \in AbsentRules
    /\ ruleSeq = Len(rules)
    /\ telegramBotToken = FALSE

AbsentNext ==
    \/ Tick
    \/ \E candle \in OrphanCandles : OnCandle(candle)
    \/ \E id \in DOMAIN rules, updates \in OrphanPatches :
         PatchRule(id, updates)

SpecAbsent == AbsentInit /\ [][AbsentNext]_vars

\* The rule as it would be if an existing user owned it: its condition
\* does not depend on the owner.
OwnedBy(rule, userId) == [rule EXCEPT !.userId = userId]

\* C28: when a final candle is evaluated, an enabled matching rule that is
\* free to fire, whose condition holds and whose user is missing gets the
\* time of the evaluation as its cooldown timestamp and no alert; and
\* while a rule's timestamp is less than cooldownSec * 1000 ms old no step
\* stores an alert for it, whether or not its user exists by then.
OrphanTriggerStartsCooldown ==
    [][/\ (lastEval' # lastEval /\ lastEval'.final) =>
            \A r \in DOMAIN rules :
                (/\ rules[r].isEnabled
                 /\ Matches(rules[r], lastEval'.candle[1])
                 /\ canTrigger(ruleCooldowns, rules[r], now)
                 /\ \E u \in DOMAIN users :
                       ConditionHoldsIn(candles', OwnedBy(rules[r], u),
                                        lastEval'.candle[1])
                 /\ getUser(users, rules[r].userId) = <<>>)
                => /\ hasCooldown(ruleCooldowns', r)
                   /\ ruleCooldowns'[r] = now
                   /\ r \notin NewAlertRules
       /\ \A r \in DOMAIN rules :
            InCooldown(r) => r \notin NewAlertRules
      ]_vars

\* C28 witness: the rule has never had an alert, its user exists, its
\* condition holds on the last candle, and it was held back by the
\* cooldown that an evaluation without user started.
HeldBackByOrphanTrigger ==
    /\ lastEval.final
    /\ alerts = <<>>
    /\ 1 \in lastEval.blocked
    /\ getUser(users, rules[1].userId) # <<>>
    /\ InCooldown(1)
    /\ ConditionHolds(rules[1], lastEval.candle[1])

----------------------------------------------------------------------------
(* SpecTimeframe: one enabled BREAKOUT or VOLUME_SPIKE rule on BTCUSDT      *)
(* whose timeframe is 1m, 5m or unset, without cooldown, fed final candles  *)
(* of three keys while reconciliation passes run                            *)

TimeframeRules ==
    {[i \in {1} |-> Rule(1, 1, "BTCUSDT", kind[1], timeframe, kind[2],
                          TRUE, 0)] :
        kind \in {<<"BREAKOUT", BreakoutParams(0, "BOTH")>>,
                  <<"VOLUME_SPIKE", VolumeSpikeParams(1, 1)>>},
        timeframe \in {"1m", "5m", "null"}}

TimeframeInit ==
    /\ IdleInit
    /\ users = [u \in {1} |-> User(1, "FREE")]
    /\ rules \in TimeframeRules
    /\ ruleSeq = Len(rules)
    /\ telegramBotToken = FALSE

TimeframeNext ==
    \/ \E candle \in BreakoutCandles : OnCandle(candle)
    \/ Reconcile

SpecTimeframe == TimeframeInit /\ [][TimeframeNext]_vars

\* C29: an alert stored for a BREAKOUT or VOLUME_SPIKE rule comes from a
\* candle of the rule's symbol whose interval is the rule's timeframe; such
\* a rule without timeframe has no alert and no trigger time, ever; and a
\* pass leaves a connection for the 1m stream of its symbol.
FiresOnOwnTimeframeOnly ==
    /\ [][\A r \in NewAlertRules :
             rules[r].type \in {"BREAKOUT", "VOLUME_SPIKE"} =>
                 /\ lastEval'.final
                 /\ rules[r].timeframe = lastEval'.candle[1].interval
                 /\ rules[r].symbol = lastEval'.candle[1].symbol
         ]_vars
    /\ [](\A r \in DOMAIN rules :
             (/\ rules[r].type \in {"BREAKOUT", "VOLUME_SPIKE"}
              /\ rules[r].timeframe = "null")
             => /\ \A i \in 1..Len(alerts) : alerts[i].ruleId # r
                /\ ~hasCooldown(ruleCooldowns, r)
                /\ AfterPass => ExactlyOne(StreamKey(rules[r].symbol, "1m")))

\* C29 witness: a BREAKOUT rule with lookback 0 and no timeframe; a pass
\* has connected the 1m stream of its symbol, two 1m candles and a 5m
\* candle of the symbol have been evaluated, and there is no alert.
UnsetTimeframeNeverFired ==
    /\ rules[1].type = "BREAKOUT"
    /\ rules[1].timeframe = "null"
    /\ rules[1].params.lookback = 0
    /\ AfterPass
    /\ ExactlyOne(StreamKey("BTCUSDT", "1m"))
    /\ Len(candles[makeKey("BTCUSDT", "1m")]) = 2
    /\ Len(candles[makeKey("BTCUSDT", "5m")]) = 1
    /\ alerts = <<>>

====
